---- MODULE Spec2Model ----
(***************************************************************************)
(* A model of the TOML lexer of src/src/lex.rs (struct Lex and its scan    *)
(* routines).  The input text is a sequence of bytes (0..255).  The scan   *)
(* is a state machine: pc names the routine (or loop) that runs next and   *)
(* stack holds the routines that remain to run once it returns, the top    *)
(* being the last element.  One action is one loop iteration, or one       *)
(* routine body that has no loop, of the source.                           *)
(***************************************************************************)
EXTENDS Integers, Sequences, FiniteSets, TLC

VARIABLES text, index, current, symbols, pc, stack, start, quote_count,
          slash_count, allow_underscore, saw_dot, is_array, result

vars == <<text, index, current, symbols, pc, stack, start, quote_count,
          slash_count, allow_underscore, saw_dot, is_array, result>>

(***************************************************************************)
(* Bytes.  Printable ASCII is written as one-character strings and turned  *)
(* into byte values by Ord; the double quote and the backslash are written *)
(* "DQ" and "BSLASH" (and the backtick "BTICK"); control bytes are named.  *)
(***************************************************************************)
Printable ==
  << " ", "!", "DQ", "#", "$", "%", "&", "'", "(", ")", "*", "+", ",", "-", ".", "/",
     "0", "1", "2", "3", "4", "5", "6", "7", "8", "9", ":", ";", "<", "=", ">", "?",
     "@", "A", "B", "C", "D", "E", "F", "G", "H", "I", "J", "K", "L", "M", "N", "O",
     "P", "Q", "R", "S", "T", "U", "V", "W", "X", "Y", "Z", "[", "BSLASH", "]", "^", "_",
     "BTICK", "a", "b", "c", "d", "e", "f", "g", "h", "i", "j", "k", "l", "m", "n", "o",
     "p", "q", "r", "s", "t", "u", "v", "w", "x", "y", "z", "{", "|", "}", "~" >>

Ord == [c \in {Printable[i] : i \in 1..Len(Printable)} |->
          31 + (CHOOSE i \in 1..Len(Printable) : Printable[i] = c)]

\* The bytes of a text written as a tuple of one-character strings.
A(chars) == [i \in 1..Len(chars) |-> Ord[chars[i]]]

NUL == 0
TAB == 9
LF == 10
CR == 13
DEL == 127

SP == Ord[" "]
DQ == Ord["DQ"]
SQ == Ord["'"]
BSLASH == Ord["BSLASH"]
HASH == Ord["#"]

\* b'a'..=b'z' | b'A'..=b'Z' | b'0'..=b'9' | b'_' | b'-'
IsBareKeyByte(c) ==
  \/ c \in Ord["a"]..Ord["z"]
  \/ c \in Ord["A"]..Ord["Z"]
  \/ c \in Ord["0"]..Ord["9"]
  \/ c = Ord["_"]
  \/ c = Ord["-"]

IsQuote(c) == c = DQ \/ c = SQ

\* 0 | b' ' | b'\t' | b'\n' | b'#' | b',': the bytes that end a numeric literal.
IsNumberEnd(c) == c \in {NUL, SP, TAB, LF, HASH, Ord[","]}

(***************************************************************************)
(* The scanner's state as one record, so that a routine is an operator     *)
(* from state to state.                                                    *)
(***************************************************************************)
State ==
  [text |-> text, index |-> index, current |-> current, symbols |-> symbols,
   pc |-> pc, stack |-> stack, start |-> start, quote_count |-> quote_count,
   slash_count |-> slash_count, allow_underscore |-> allow_underscore,
   saw_dot |-> saw_dot, is_array |-> is_array, result |-> result]

(***************************************************************************)
(* The machine stack.  scan_value calls scan_array and scan_inline_table,  *)
(* which call scan_value for each of their values, so every array or       *)
(* inline table that is open adds frames to the stack of the thread, and   *)
(* whatever is scanned inside them (a string, a number, an error on its    *)
(* way out, a panic) needs room on top of those frames.  The code sets no  *)
(* limit to the nesting and the stack is finite: when it is exhausted the  *)
(* process is killed ("thread has overflowed its stack", SIGABRT), which   *)
(* is neither Ok, nor Err, nor a panic.  Where that happens is a matter of *)
(* the build, of the size of the stack and of what is nested, not of the   *)
(* code.  A debug build on a 2 MiB thread (what cargo test gives each      *)
(* test) is killed at about 790 to 950 open values: earlier with inline    *)
(* tables than with arrays, and a few levels earlier again when the        *)
(* innermost value is a string or a number; on 1 MiB at about 400, on the  *)
(* 8 MiB of a main thread at about 3200 to 3800.  A release build holds    *)
(* some thirty times more, and is still killed at about 800 arrays on      *)
(* 64 KiB.  The innermost step that needs most room is the panic of        *)
(* scan_number_or_date when the panic hook prints a backtrace              *)
(* (RUST_BACKTRACE=1): a debug build on 64 KiB is then killed at 13 to 15  *)
(* inline tables, on 68 KiB at 16, on 69 KiB at 17.                        *)
(*                                                                         *)
(* The model takes the scan to run on a stack of 1 MiB or more (a thread   *)
(* has 2 MiB and the main thread 8 MiB unless they are set otherwise),     *)
(* which holds StackSafeDepth open values in every build, whatever the     *)
(* innermost step.  Beyond that nesting any step, a call or not, may       *)
(* exhaust the stack or go on.  A scan started on less stack than that is  *)
(* outside the model.                                                      *)
(***************************************************************************)
\* The open arrays and inline tables up to which no step exhausts the stack:
\* below every nesting at which a build was seen killed, on any stack.
StackSafeDepth == 8

\* The continuations of a scan_array or scan_inline_table frame that waits for
\* the scan_value it called.
NestingConts == {"scan_array_delim", "scan_inline_table_loop"}

\* The number of arrays and inline tables that the frames of st have open.
Nesting(st) == Cardinality({i \in 1..Len(st) : st[i] \in NestingConts})

\* Every frame of st holds at most one entry of NestingConts, so Len(st) bounds
\* Nesting(st).
NestedBeyond(st, d) == Len(st) > d /\ Nesting(st) > d

\* An error, or a panic, ends the scan.
err(s, e) == [s EXCEPT !.pc = "done", !.stack = <<>>, !.result = e]

panic(s) == err(s, [kind |-> "Panic"])

\* The process killed by the stack overflow.
abort(s) ==
  [s EXCEPT !.pc = "done", !.stack = <<>>, !.result = [kind |-> "Abort"]]

\* The largest i32: slash_count is "let mut slash_count = 0" with no other
\* constraint on its type, so an i32.
I32Max == 2147483647

\* x + 1 on an i32 as the release build computes it (wrapping).
wrapping_inc(x) ==
  IF x = I32Max THEN -I32Max - 1 ELSE x + 1

\* The step from s to n was "slash_count += 1" at the largest i32: the only
\* step that makes slash_count negative.  A build with overflow checks (the
\* debug build) panics there: "attempt to add with overflow".
AddOverflowed(s, n) == s.slash_count = I32Max /\ n.slash_count < 0

\* What the step from s to n can come to: n; the panic of the build with
\* overflow checks when the step overflowed slash_count; the overflow of the
\* stack when the step is made, or ends, beyond the safe nesting.
Outcomes(s, n) ==
  {n}
  \cup (IF AddOverflowed(s, n) THEN {panic(s)} ELSE {})
  \cup (IF \/ NestedBeyond(s.stack, StackSafeDepth)
           \/ NestedBeyond(n.stack, StackSafeDepth)
          THEN {abort(n)}
        ELSE {})

Apply(m) ==
  \E n \in Outcomes(State, m) :
    /\ text' = n.text
    /\ index' = n.index
    /\ current' = n.current
    /\ symbols' = n.symbols
    /\ pc' = n.pc
    /\ stack' = n.stack
    /\ start' = n.start
    /\ quote_count' = n.quote_count
    /\ slash_count' = n.slash_count
    /\ allow_underscore' = n.allow_underscore
    /\ saw_dot' = n.saw_dot
    /\ is_array' = n.is_array
    /\ result' = n.result

\* *text.as_bytes().get(i).unwrap_or(&0), i counted from 0
ByteAt(t, i) == IF i < Len(t) THEN t[i + 1] ELSE 0

\* Lex::new
new(t) ==
  [text |-> t, index |-> 0, current |-> ByteAt(t, 0), symbols |-> <<>>,
   pc |-> "scan", stack |-> <<>>, start |-> 0, quote_count |-> 0,
   slash_count |-> 0, allow_underscore |-> FALSE, saw_dot |-> FALSE,
   is_array |-> FALSE, result |-> [kind |-> "None"]]

next(s) ==
  [s EXCEPT !.index = s.index + 1, !.current = ByteAt(s.text, s.index + 1)]

peek(s) == ByteAt(s.text, s.index + 1)

\* advance that moves the index and leaves the cached byte as it was.
advance_stale(s, i) == [s EXCEPT !.index = i]

advance(s, i) ==
  [s EXCEPT !.index = i, !.current = ByteAt(s.text, i)]

eat(s, c) == IF s.current = c THEN next(s) ELSE s

Symbol_new(sym, pos) == [sym |-> sym, lo |-> pos, hi |-> pos + 1]

with_span(sym, lo, hi) == [sym |-> sym, lo |-> lo, hi |-> hi + 1]

push(s, sym) == [s EXCEPT !.symbols = Append(@, Symbol_new(sym, s.index))]

push_span(s, sym, lo, hi) ==
  [s EXCEPT !.symbols = Append(@, with_span(sym, lo, hi))]

(***************************************************************************)
(* Control.  Call runs target and then the routines of conts, last one     *)
(* first; Return runs what the stack says comes next; an error or a panic  *)
(* unwinds the whole scan.                                                 *)
(***************************************************************************)
Goto(s, target) == [s EXCEPT !.pc = target]

\* A call of target that comes back to conts, last first.
Call(s, target, conts) ==
  [s EXCEPT !.pc = target, !.stack = @ \o conts]

Return(s) ==
  [s EXCEPT !.pc = s.stack[Len(s.stack)],
            !.stack = SubSeq(@, 1, Len(@) - 1)]

err_unterminated_string(s, st) ==
  err(s, [kind |-> "UnterminatedString", start |-> st, pos |-> s.index])

err_too_many_quotes_in_string(s, st) ==
  err(s, [kind |-> "TooManyQuotesInString", start |-> st, pos |-> s.index])

err_illegal_control_character(s) ==
  err(s, [kind |-> "ControlCharacter", pos |-> s.index])

err_multiline_key(s) == err(s, [kind |-> "MultilineKey", pos |-> s.index])

err_illegal_multiline_string(s) ==
  err(s, [kind |-> "MultilineString", pos |-> s.index])

err_unconsumed_input(s) ==
  err(s, [kind |-> "UnconsumedInput", pos |-> s.index])

err_expected(s, c) == err(s, [kind |-> "Expected", pos |-> s.index, c |-> c])

err_unexpected(s) == err(s, [kind |-> "Unexpected", pos |-> s.index])

err_missing_delimiter(s) ==
  err(s, [kind |-> "MissingDelimiter", pos |-> s.index])

(***************************************************************************)
(* Whitespace and comments.                                                *)
(***************************************************************************)
\* consume_comment up to its loop: the '#' is consumed.
consume_comment(s) == Goto(next(s), "consume_comment_loop")

\* consume_comment's loop with the tab refused, as the other control bytes.
consume_comment_loop_no_tab(s) ==
  LET c == s.current IN
  IF c = NUL \/ c = LF THEN Return(s)
  ELSE IF c = CR THEN
    IF peek(s) # LF THEN err_illegal_control_character(s)
    ELSE Return(next(next(s)))
  ELSE IF c \in 1..31 \/ c = DEL THEN err_illegal_control_character(s)
  ELSE next(s)

\* One iteration of consume_comment's loop.
consume_comment_loop(s) ==
  LET c == s.current IN
  IF c = NUL \/ c = LF THEN Return(s)
  ELSE IF c = CR THEN
    IF peek(s) # LF THEN err_illegal_control_character(s)
    ELSE Return(next(next(s)))
  ELSE IF c \in 1..8 \/ c \in 10..31 \/ c = DEL
    THEN err_illegal_control_character(s)
  ELSE next(s)

\* consume_line that passes over every byte up to the end of the line.
consume_line_lenient(s) ==
  LET c == s.current IN
  IF c = NUL \/ c = LF THEN Return(s)
  ELSE IF c = CR THEN
    IF peek(s) # LF THEN err_illegal_control_character(s)
    ELSE Return(next(next(s)))
  ELSE IF c = HASH THEN Goto(s, "consume_comment")
  ELSE next(s)

\* One iteration of consume_line's loop; a comment ends the line.
consume_line(s) ==
  LET c == s.current IN
  IF c = NUL \/ c = LF THEN Return(s)
  ELSE IF c = CR THEN
    IF peek(s) # LF THEN err_illegal_control_character(s)
    ELSE Return(next(next(s)))
  ELSE IF c = SP \/ c = TAB THEN next(s)
  ELSE IF c = HASH THEN Goto(s, "consume_comment")
  ELSE err_unexpected(s)

\* One iteration of skip_whitespace_and_comment's loop.
skip_whitespace_and_comment(s) ==
  LET c == s.current IN
  IF c = CR THEN
    IF peek(s) # LF THEN err_illegal_control_character(s)
    ELSE Return(next(next(s)))
  ELSE IF c = LF \/ c = SP \/ c = TAB THEN next(s)
  ELSE IF c = HASH
    THEN Call(s, "consume_comment", <<"skip_whitespace_and_comment">>)
  ELSE Return(s)

\* skip_whitespace, the whole loop: it cannot fail.
RECURSIVE skip_whitespace(_)
skip_whitespace(s) ==
  IF s.current = SP \/ s.current = TAB THEN skip_whitespace(next(s)) ELSE s

(***************************************************************************)
(* Keys and strings.                                                       *)
(***************************************************************************)
\* scan_key up to its loop.
scan_key(s) == Goto([s EXCEPT !.start = s.index], "scan_key_loop")

\* One iteration of scan_key's loop: next(), then the match.
scan_key_loop(s) ==
  LET n == next(s)
      c == n.current IN
  IF IsBareKeyByte(c) THEN n
  ELSE IF c \in {SP, TAB, Ord["="], Ord["."], Ord["]"]}
    THEN Return(push_span(n, "Key", n.start, n.index - 1))
  ELSE err_unexpected(n)

\* scan_multiline_basic_string up to its loop: the opening quotes are consumed.
scan_multiline_basic_string(s) ==
  LET n == next(next(next(s))) IN
  Goto([n EXCEPT !.start = n.index, !.quote_count = 0, !.slash_count = 0],
       "scan_multiline_basic_string_loop")

\* One iteration of scan_multiline_basic_string's loop.  slash_count is an
\* i32: its increment is wrapping_inc, and Outcomes adds the panic of the
\* build that checks the overflow.  quote_count is a usize (it is subtracted
\* from self.index), which a text cannot overflow.
scan_multiline_basic_string_loop(s) ==
  LET c == s.current
      q == s.quote_count
      close == Return(push_span(s, "String", s.start, s.index - (q - 3)))
  IN
  IF c = DQ THEN
    next([s EXCEPT !.quote_count = IF s.slash_count % 2 = 0 THEN q + 1 ELSE 0,
                   !.slash_count = 0])
  ELSE IF c = BSLASH THEN
    IF q \in 0..2
      THEN next([s EXCEPT !.slash_count = wrapping_inc(s.slash_count),
                        !.quote_count = 0])
    ELSE IF q \in 3..5 THEN close
    ELSE err_too_many_quotes_in_string(s, s.start)
  ELSE
    IF q \in 0..2 THEN
      IF c = NUL THEN err_unterminated_string(s, s.start)
      ELSE next([s EXCEPT !.quote_count = 0])
    ELSE IF q \in 3..5 THEN close
    ELSE err_too_many_quotes_in_string(s, s.start)

\* scan_basic_string up to its loop: the opening quote is consumed.
scan_basic_string(s) ==
  LET n == next(s) IN
  Goto([n EXCEPT !.start = n.index, !.slash_count = 0], "scan_basic_string_loop")

\* One iteration of scan_basic_string's loop; the closing quote ends it.
\* slash_count is an i32: its increment is wrapping_inc, and Outcomes adds the
\* panic of the build that checks the overflow.
scan_basic_string_loop(s) ==
  LET c == s.current IN
  IF c = DQ THEN
    IF s.slash_count % 2 = 0
      THEN Return(next(push_span(s, "String", s.start, s.index)))
    ELSE next([s EXCEPT !.slash_count = 0])
  ELSE IF c = BSLASH
    THEN next([s EXCEPT !.slash_count = wrapping_inc(s.slash_count)])
  ELSE IF c = LF \/ c = NUL THEN err_unterminated_string(s, s.start)
  ELSE next([s EXCEPT !.slash_count = 0])

\* memmem::find(rest, [b'\'', b'\'', b'\'']): the offsets in t[from..] where
\* three single quotes start.
TripleQuoteAt(t, from) ==
  {i \in 0..(Len(t) - from) :
     /\ from + i + 3 <= Len(t)
     /\ \A k \in 1..3 : t[from + i + k] = SQ}

\* memchr::memchr3(b'\n', b'\'', b'\0', rest): the offsets in t[from..] of
\* those bytes.
Memchr3At(t, from) ==
  {i \in 0..(Len(t) - from - 1) : t[from + i + 1] \in {LF, SQ, NUL}}

\* The first match of a search.
Min(S) == CHOOSE x \in S : \A y \in S : x <= y

\* scan_multiline_literal_string that closes whatever follows two further quotes.
scan_multiline_literal_string_lenient(s) ==
  LET n == next(next(next(s)))
      st == n.index
      found == TripleQuoteAt(n.text, st)
  IN
  IF found # {} THEN
    LET a == advance(n, st + Min(found) + 3)
        e == IF a.current = SQ THEN eat(next(a), SQ) ELSE a
    IN
    Return(push_span([e EXCEPT !.start = st], "String", st, e.index - 3))
  ELSE err_unterminated_string(n, st)

\* scan_multiline_literal_string, whole.
scan_multiline_literal_string(s) ==
  LET n == next(next(next(s)))
      st == n.index
      found == TripleQuoteAt(n.text, st)
  IN
  IF found # {} THEN
    LET a == advance(n, st + Min(found) + 3)
        e == IF a.current = SQ THEN eat(next(a), SQ) ELSE a
        two == a.current = SQ /\ next(a).current = SQ
    IN
    IF two /\ e.current = SQ THEN err_too_many_quotes_in_string(e, st)
    ELSE Return(push_span([e EXCEPT !.start = st], "String", st, e.index - 3))
  ELSE err_unterminated_string(n, st)

\* scan_literal_string with the closing quote inside the span.
scan_literal_string_with_quote(s) ==
  LET n == next(s)
      st == n.index
      found == Memchr3At(n.text, st)
  IN
  IF found # {} THEN
    LET i == Min(found)
        a == advance(n, st + i + 1)
    IN
    IF n.text[st + i + 1] = SQ
      THEN Return(push_span([a EXCEPT !.start = st], "String", st, st + i))
    ELSE err_unterminated_string(a, st)
  ELSE err_unterminated_string(n, st)

\* scan_literal_string, whole.
scan_literal_string(s) ==
  LET n == next(s)
      st == n.index
      found == Memchr3At(n.text, st)
  IN
  IF found # {} THEN
    LET i == Min(found)
        a == advance(n, st + i + 1)
    IN
    IF n.text[st + i + 1] = SQ
      THEN Return(push_span([a EXCEPT !.start = st], "String", st, st + i - 1))
    ELSE err_unterminated_string(a, st)
  ELSE err_unterminated_string(n, st)

\* The slice text[index..] starts with three bytes c.
StartsWithThree(s, c) ==
  /\ s.index + 3 <= Len(s.text)
  /\ \A k \in 1..3 : s.text[s.index + k] = c

\* scan_string: the dispatch on the leading quotes.
scan_string(s) ==
  IF StartsWithThree(s, SQ) THEN Goto(s, "scan_multiline_literal_string")
  ELSE IF StartsWithThree(s, DQ) THEN Goto(s, "scan_multiline_basic_string")
  ELSE IF s.index < Len(s.text) /\ s.current = SQ
    THEN Goto(s, "scan_literal_string")
  ELSE IF s.index < Len(s.text) /\ s.current = DQ
    THEN Goto(s, "scan_basic_string")
  ELSE panic(s)

\* scan_single_line_string with the multi-line forms accepted, as scan_string.
scan_single_line_string_multi(s) ==
  IF StartsWithThree(s, SQ) THEN Goto(s, "scan_multiline_literal_string")
  ELSE IF StartsWithThree(s, DQ) THEN Goto(s, "scan_multiline_basic_string")
  ELSE IF s.index < Len(s.text) /\ s.current = SQ
    THEN Goto(s, "scan_literal_string")
  ELSE IF s.index < Len(s.text) /\ s.current = DQ
    THEN Goto(s, "scan_basic_string")
  ELSE panic(s)

\* scan_single_line_string: as scan_string, the multi-line forms refused.
scan_single_line_string(s) ==
  IF StartsWithThree(s, SQ) THEN err_illegal_multiline_string(s)
  ELSE IF StartsWithThree(s, DQ) THEN err_illegal_multiline_string(s)
  ELSE IF s.index < Len(s.text) /\ s.current = SQ
    THEN Goto(s, "scan_literal_string")
  ELSE IF s.index < Len(s.text) /\ s.current = DQ
    THEN Goto(s, "scan_basic_string")
  ELSE panic(s)

(***************************************************************************)
(* Numbers.                                                                *)
(***************************************************************************)
\* scan_number up to one of its four loops: the sign and the base prefix.
scan_number(s) ==
  LET st == s.index
      n == IF s.current = Ord["-"] \/ s.current = Ord["+"] THEN next(s) ELSE s
      enter(m, loop) ==
        Goto([m EXCEPT !.start = st, !.allow_underscore = FALSE], loop)
  IN
  IF n.current = Ord["0"] /\ peek(n) \in {Ord["x"], Ord["X"]}
    THEN enter(next(next(n)), "scan_number_hex")
  ELSE IF n.current = Ord["0"] /\ peek(n) \in {Ord["o"], Ord["O"]}
    THEN enter(next(next(n)), "scan_number_octal")
  ELSE IF n.current = Ord["0"] /\ peek(n) \in {Ord["b"], Ord["B"]}
    THEN enter(next(next(n)), "scan_number_binary")
  ELSE enter(n, "scan_number_decimal")

\* One iteration of the hexadecimal loop: its '_' arm does not call next().
scan_number_hex(s) ==
  LET c == s.current IN
  IF \/ c \in Ord["0"]..Ord["9"]
     \/ c \in Ord["a"]..Ord["f"]
     \/ c \in Ord["A"]..Ord["F"]
    THEN next([s EXCEPT !.allow_underscore = TRUE])
  ELSE IF c = Ord["_"] THEN
    IF ~s.allow_underscore THEN err_unexpected(s)
    ELSE [s EXCEPT !.allow_underscore = FALSE]
  ELSE IF IsNumberEnd(c)
    THEN Return(push_span(s, "Integer", s.start, s.index - 1))
  ELSE err_unexpected(s)

\* One iteration of the octal loop.
scan_number_octal(s) ==
  LET c == s.current IN
  IF c \in Ord["0"]..Ord["7"] THEN next([s EXCEPT !.allow_underscore = TRUE])
  ELSE IF c = Ord["_"] THEN
    IF ~s.allow_underscore THEN err_unexpected(s)
    ELSE next([s EXCEPT !.allow_underscore = FALSE])
  ELSE IF IsNumberEnd(c)
    THEN Return(push_span(s, "Integer", s.start, s.index - 1))
  ELSE err_unexpected(s)

\* One iteration of the binary loop.
scan_number_binary(s) ==
  LET c == s.current IN
  IF c = Ord["0"] \/ c = Ord["1"] THEN next([s EXCEPT !.allow_underscore = TRUE])
  ELSE IF c = Ord["_"] THEN
    IF ~s.allow_underscore THEN err_unexpected(s)
    ELSE next([s EXCEPT !.allow_underscore = FALSE])
  ELSE IF IsNumberEnd(c)
    THEN Return(push_span(s, "Integer", s.start, s.index - 1))
  ELSE err_unexpected(s)

\* One iteration of the decimal loop.
scan_number_decimal(s) ==
  LET c == s.current IN
  IF c \in Ord["0"]..Ord["9"] THEN next([s EXCEPT !.allow_underscore = TRUE])
  ELSE IF c = Ord["_"] THEN
    IF ~s.allow_underscore THEN err_unexpected(s)
    ELSE next([s EXCEPT !.allow_underscore = FALSE])
  ELSE IF IsNumberEnd(c)
    THEN Return(push_span(s, "Integer", s.start, s.index - 1))
  ELSE err_unexpected(s)

\* scan_number_or_date: todo!(), which panics.
scan_number_or_date(s) == panic(s)

(***************************************************************************)
(* Values, arrays and inline tables.                                       *)
(***************************************************************************)
\* The slice text[index..] starts with the bytes of word: [b't', b'r', .., ..].
StartsWith(s, word) ==
  /\ s.index + Len(word) <= Len(s.text)
  /\ \A k \in 1..Len(word) : s.text[s.index + k] = word[k]

\* The slice text[index..] is exactly the bytes of word: [b'i', b'n', b'f'].
RestIs(s, word) == StartsWith(s, word) /\ s.index + Len(word) = Len(s.text)

\* scan_value: the dispatch on the current byte; true, false, inf and nan are
\* scanned here.
scan_value(s) ==
  LET c == s.current
      word(len, sym) ==
        Return(push_span(advance(s, s.index + len), sym, s.index, s.index + len))
  IN
  IF IsQuote(c) THEN Goto(s, "scan_string")
  ELSE IF c = Ord["{"] THEN Goto(s, "scan_inline_table")
  ELSE IF c = Ord["["] THEN Goto(s, "scan_array")
  ELSE IF c = Ord["t"] \/ c = Ord["f"] THEN
    IF StartsWith(s, A(<<"t", "r", "u", "e">>)) THEN word(4, "Bool")
    ELSE IF StartsWith(s, A(<<"f", "a", "l", "s", "e">>)) THEN word(5, "Bool")
    ELSE err_unexpected(s)
  ELSE IF c = Ord["i"] \/ c = Ord["n"] THEN
    IF RestIs(s, A(<<"i", "n", "f">>)) \/ RestIs(s, A(<<"n", "a", "n">>))
      THEN word(3, "Float")
    ELSE err_unexpected(s)
  ELSE IF c = Ord["+"] \/ c = Ord["-"] THEN Goto(s, "scan_number")
  ELSE IF c \in Ord["0"]..Ord["9"] THEN Goto(s, "scan_number_or_date")
  ELSE err_unexpected(s)

\* What follows a value in an array: whitespace and comments, then the delimiter.
AfterElement == <<"scan_array_delim", "skip_whitespace_and_comment">>

\* scan_array up to the first skip_whitespace_and_comment.
scan_array(s) ==
  Call(next(push(s, "Array")), "skip_whitespace_and_comment",
       <<"scan_array_first">>)

\* scan_array after the first skip: the empty array, or the first value.
scan_array_first(s) ==
  IF s.current = Ord["]"] THEN Return(next(push(s, "ArrayEnd")))
  ELSE Call(s, "scan_value", AfterElement)

\* scan_array's loop after its skip: the match on ',' and ']'.
scan_array_delim(s) ==
  IF s.current = Ord[","]
    THEN Call(next(s), "skip_whitespace_and_comment", <<"scan_array_comma">>)
  ELSE IF s.current = Ord["]"] THEN Return(next(push(s, "ArrayEnd")))
  ELSE err_missing_delimiter(s)

\* scan_array_comma that closes the array after a trailing comma without ArrayEnd.
scan_array_comma_silent(s) ==
  IF s.current = Ord["]"] THEN Return(next(s))
  ELSE Call(s, "scan_value", AfterElement)

\* scan_array after a ',' and its skip: a trailing comma, or the next value.
scan_array_comma(s) ==
  IF s.current = Ord["]"] THEN Return(next(push(s, "ArrayEnd")))
  ELSE Call(s, "scan_value", AfterElement)

\* What follows scan_key_like in an inline table: skip_whitespace, scan_value,
\* then the loop.
AfterInlineKey == <<"scan_inline_table_loop", "scan_value", "skip_whitespace">>

\* scan_inline_table up to its first key: '}' is eaten before InlineTableEnd
\* is pushed.
scan_inline_table(s) ==
  LET n == skip_whitespace(next(push(s, "InlineTable"))) IN
  IF n.current = Ord["}"] THEN Return(push(next(n), "InlineTableEnd"))
  ELSE Call(n, "scan_key_like", AfterInlineKey)

\* scan_inline_table's loop with a trailing comma accepted, as in an array.
scan_inline_table_loop_trailing(s) ==
  LET n == skip_whitespace(s)
      m == skip_whitespace(next(n))
  IN
  IF n.current = Ord[","] THEN
    IF m.current = Ord["}"] THEN Return(next(push(m, "InlineTableEnd")))
    ELSE Call(m, "scan_key_like", AfterInlineKey)
  ELSE IF n.current = Ord["}"] THEN Return(next(push(n, "InlineTableEnd")))
  ELSE err_missing_delimiter(n)

\* One iteration of scan_inline_table's loop.
scan_inline_table_loop(s) ==
  LET n == skip_whitespace(s) IN
  IF n.current = Ord[","]
    THEN Call(skip_whitespace(next(n)), "scan_key_like", AfterInlineKey)
  ELSE IF n.current = Ord["}"] THEN Return(next(push(n, "InlineTableEnd")))
  ELSE err_missing_delimiter(n)

(***************************************************************************)
(* Key paths and table headers.                                            *)
(***************************************************************************)
\* scan_key_like: the first segment, then scan_dotted.
scan_key_like(s) ==
  IF IsQuote(s.current) THEN Call(s, "scan_string", <<"scan_dotted">>)
  ELSE IF IsBareKeyByte(s.current) THEN Call(s, "scan_key", <<"scan_dotted">>)
  ELSE err_unexpected(s)

\* scan_dotted up to its loop.
scan_dotted(s) == Goto([s EXCEPT !.saw_dot = FALSE], "scan_dotted_loop")

\* scan_dotted's loop with a '.' accepted right after a '.'.
scan_dotted_loop_two_dots(s) ==
  LET n == skip_whitespace(s)
      c == n.current
  IN
  IF c = CR THEN
    IF peek(n) # LF THEN err_illegal_control_character(n)
    ELSE err_multiline_key(n)
  ELSE IF c = LF THEN err_multiline_key(n)
  ELSE IF c = Ord["."] THEN next([n EXCEPT !.saw_dot = TRUE])
  ELSE IF c = Ord["="] THEN
    IF n.saw_dot THEN err_unexpected(n)
    ELSE Return(next(push(n, "Assign")))
  ELSE IF IsQuote(c) THEN
    IF ~n.saw_dot THEN err_unexpected(n)
    ELSE Call([n EXCEPT !.saw_dot = FALSE], "scan_string", <<"scan_dotted_loop">>)
  ELSE IF IsBareKeyByte(c) THEN
    IF ~n.saw_dot THEN err_unexpected(n)
    ELSE Call([n EXCEPT !.saw_dot = FALSE], "scan_key", <<"scan_dotted_loop">>)
  ELSE err_unexpected(n)

\* One iteration of scan_dotted's loop; '=' ends it and is pushed as Assign.
scan_dotted_loop(s) ==
  LET n == skip_whitespace(s)
      c == n.current
  IN
  IF c = CR THEN
    IF peek(n) # LF THEN err_illegal_control_character(n)
    ELSE err_multiline_key(n)
  ELSE IF c = LF THEN err_multiline_key(n)
  ELSE IF c = Ord["."] THEN
    IF n.saw_dot THEN err_unexpected(n)
    ELSE next([n EXCEPT !.saw_dot = TRUE])
  ELSE IF c = Ord["="] THEN
    IF n.saw_dot THEN err_unexpected(n)
    ELSE Return(next(push(n, "Assign")))
  ELSE IF IsQuote(c) THEN
    IF ~n.saw_dot THEN err_unexpected(n)
    ELSE Call([n EXCEPT !.saw_dot = FALSE], "scan_string", <<"scan_dotted_loop">>)
  ELSE IF IsBareKeyByte(c) THEN
    IF ~n.saw_dot THEN err_unexpected(n)
    ELSE Call([n EXCEPT !.saw_dot = FALSE], "scan_key", <<"scan_dotted_loop">>)
  ELSE err_unexpected(n)

\* scan_table up to its loop: Table or ArrayOfTable is pushed after the
\* brackets are consumed.
scan_table(s) ==
  LET n == next(s)
      arr == n.current = Ord["["]
      m == eat(n, Ord["["])
  IN
  Goto([push(m, IF arr THEN "ArrayOfTable" ELSE "Table")
          EXCEPT !.is_array = arr, !.saw_dot = TRUE],
       "scan_table_loop")

\* One iteration of scan_table's loop; ']' ends it.
scan_table_loop(s) ==
  LET c == s.current IN
  IF c = CR THEN
    IF peek(s) # LF THEN err_illegal_control_character(s)
    ELSE err_multiline_key(s)
  ELSE IF c = LF THEN err_multiline_key(s)
  ELSE IF c = SP \/ c = TAB THEN next(s)
  ELSE IF c = Ord["."] THEN
    IF s.saw_dot THEN err_unexpected(s)
    ELSE next([s EXCEPT !.saw_dot = TRUE])
  ELSE IF c = Ord["]"] THEN
    IF s.saw_dot THEN err_unexpected(s)
    ELSE Goto(next(s), "scan_table_close")
  ELSE IF IsQuote(c) THEN
    IF ~s.saw_dot THEN err_unexpected(s)
    ELSE Call([s EXCEPT !.saw_dot = FALSE], "scan_single_line_string",
              <<"scan_table_loop">>)
  ELSE IF IsBareKeyByte(c) THEN
    IF ~s.saw_dot THEN err_unexpected(s)
    ELSE Call([s EXCEPT !.saw_dot = FALSE], "scan_key", <<"scan_table_loop">>)
  ELSE err_unexpected(s)

\* scan_table after its loop, the second ']' of [[..]] not required.
scan_table_close_optional(s) ==
  Call(IF s.is_array THEN eat(s, Ord["]"]) ELSE s, "consume_line",
       <<"scan_table_end">>)

\* scan_table after its loop: the second ']' of [[..]], then consume_line.
scan_table_close(s) ==
  IF s.is_array /\ s.current # Ord["]"] THEN err_expected(s, Ord["]"])
  ELSE Call(IF s.is_array THEN next(s) ELSE s, "consume_line",
            <<"scan_table_end">>)

\* scan_table's end with TableEnd put in front of the symbols.
scan_table_end_in_front(s) ==
  Return([s EXCEPT !.symbols = <<Symbol_new("TableEnd", s.index)>> \o @])

\* scan_table's end: TableEnd is pushed once the line is consumed.
scan_table_end(s) ==
  Return(push(s, "TableEnd"))

(***************************************************************************)
(* The top level.                                                          *)
(***************************************************************************)
\* What follows scan_key_like at the top level: skip_whitespace, scan_value,
\* consume_line, then the loop again.
AfterTopKey == <<"scan", "consume_line", "scan_value", "skip_whitespace">>

\* One iteration of scan's loop.
scan(s) ==
  LET c == s.current IN
  IF c = CR THEN
    IF peek(s) # LF THEN err_illegal_control_character(s)
    ELSE next(next(s))
  ELSE IF c = LF \/ c = SP \/ c = TAB THEN next(s)
  ELSE IF c = HASH THEN Call(s, "consume_comment", <<"scan">>)
  ELSE IF c = Ord["["] THEN Call(s, "scan_table", <<"scan">>)
  ELSE IF IsQuote(c) \/ IsBareKeyByte(c)
    THEN Call(s, "scan_key_like", AfterTopKey)
  ELSE IF c = NUL THEN Goto(s, "scan_end")
  ELSE err_unexpected(s)

\* scan_end without the check that the whole input was consumed.
scan_end_unchecked(s) == err(push(s, "Eof"), [kind |-> "Ok"])

\* scan_end with Eof pushed before the check of the cursor.
scan_end_eof_first(s) ==
  IF s.index # Len(s.text) THEN err_unconsumed_input(push(s, "Eof"))
  ELSE err(push(s, "Eof"), [kind |-> "Ok"])

\* scan after its loop: the whole input must be consumed, then Eof.
scan_end(s) ==
  IF s.index # Len(s.text) THEN err_unconsumed_input(s)
  ELSE err(push(s, "Eof"), [kind |-> "Ok"])

\* The routine that pc names, applied to s.
Step(s) ==
  CASE s.pc = "scan" -> scan(s)
    [] s.pc = "scan_end" -> scan_end(s)
    [] s.pc = "consume_comment" -> consume_comment(s)
    [] s.pc = "consume_comment_loop" -> consume_comment_loop(s)
    [] s.pc = "consume_line" -> consume_line(s)
    [] s.pc = "skip_whitespace_and_comment" -> skip_whitespace_and_comment(s)
    [] s.pc = "skip_whitespace" -> Return(skip_whitespace(s))
    [] s.pc = "scan_key" -> scan_key(s)
    [] s.pc = "scan_key_loop" -> scan_key_loop(s)
    [] s.pc = "scan_multiline_basic_string" -> scan_multiline_basic_string(s)
    [] s.pc = "scan_multiline_basic_string_loop" ->
         scan_multiline_basic_string_loop(s)
    [] s.pc = "scan_basic_string" -> scan_basic_string(s)
    [] s.pc = "scan_basic_string_loop" -> scan_basic_string_loop(s)
    [] s.pc = "scan_multiline_literal_string" -> scan_multiline_literal_string(s)
    [] s.pc = "scan_literal_string" -> scan_literal_string(s)
    [] s.pc = "scan_string" -> scan_string(s)
    [] s.pc = "scan_single_line_string" -> scan_single_line_string(s)
    [] s.pc = "scan_number" -> scan_number(s)
    [] s.pc = "scan_number_hex" -> scan_number_hex(s)
    [] s.pc = "scan_number_octal" -> scan_number_octal(s)
    [] s.pc = "scan_number_binary" -> scan_number_binary(s)
    [] s.pc = "scan_number_decimal" -> scan_number_decimal(s)
    [] s.pc = "scan_number_or_date" -> scan_number_or_date(s)
    [] s.pc = "scan_value" -> scan_value(s)
    [] s.pc = "scan_array" -> scan_array(s)
    [] s.pc = "scan_array_first" -> scan_array_first(s)
    [] s.pc = "scan_array_delim" -> scan_array_delim(s)
    [] s.pc = "scan_array_comma" -> scan_array_comma(s)
    [] s.pc = "scan_inline_table" -> scan_inline_table(s)
    [] s.pc = "scan_inline_table_loop" -> scan_inline_table_loop(s)
    [] s.pc = "scan_key_like" -> scan_key_like(s)
    [] s.pc = "scan_dotted" -> scan_dotted(s)
    [] s.pc = "scan_dotted_loop" -> scan_dotted_loop(s)
    [] s.pc = "scan_table" -> scan_table(s)
    [] s.pc = "scan_table_loop" -> scan_table_loop(s)
    [] s.pc = "scan_table_close" -> scan_table_close(s)
    [] s.pc = "scan_table_end" -> scan_table_end(s)
    [] OTHER -> s

\* Lex::scan run to its end, from state s: the final states it can come to,
\* one when no step is made beyond the safe nesting and slash_count stays
\* within an i32.
RECURSIVE Run(_)
Run(s) ==
  IF s.pc = "done" THEN {s}
  ELSE UNION {Run(n) : n \in Outcomes(s, Step(s))}

\* Lex::new(t).scan(): its final states.
LexScan(t) == Run(new(t))

(***************************************************************************)
(* Inputs.  Tests holds the input of every succ! and fail! of the unit     *)
(* tests of lex.rs.                                                        *)
(***************************************************************************)
Tests ==
  {
    \* basic_fail_1: =
    A(<<"=">>),
    \* basic_fail_2: \x00
    <<NUL>>,
    \* basic_success_1: 
    <<>>,
    \* basic_success_2: hello = 'world'
    A(<<"h", "e", "l", "l", "o", " ", "=", " ", "'", "w", "o", "r", "l", "d",
      "'">>),
    \* basic_success_3: hello = 'world' # zing bing bang
    A(<<"h", "e", "l", "l", "o", " ", "=", " ", "'", "w", "o", "r", "l", "d",
      "'", " ", "#", " ", "z", "i", "n", "g", " ", "b", "i", "n", "g", " ",
      "b", "a", "n", "g">>),
    \* basic_success_4: hello = true
    A(<<"h", "e", "l", "l", "o", " ", "=", " ", "t", "r", "u", "e">>),
    \* basic_success_5: hello = false
    A(<<"h", "e", "l", "l", "o", " ", "=", " ", "f", "a", "l", "s", "e">>),
    \* comment_fail_1: # He\x01llo,\n# World
    A(<<"#", " ", "H", "e">>) \o <<1>> \o A(<<"l", "l", "o",
      ",">>) \o <<LF>> \o A(<<"#", " ", "W", "o", "r", "l", "d">>),
    \* comment_fail_2: # He\rllo,\r\n# World!
    A(<<"#", " ", "H", "e">>) \o <<CR>> \o A(<<"l", "l", "o",
      ",">>) \o <<CR>> \o <<LF>> \o A(<<"#", " ", "W", "o", "r", "l", "d",
      "!">>),
    \* comment_success_1: # Hello,\n# World!
    A(<<"#", " ", "H", "e", "l", "l", "o", ",">>) \o <<LF>> \o A(<<"#", " ",
      "W", "o", "r", "l", "d", "!">>),
    \* comment_success_2: # Hello,\r\n# World!
    A(<<"#", " ", "H", "e", "l", "l", "o",
      ",">>) \o <<CR>> \o <<LF>> \o A(<<"#", " ", "W", "o", "r", "l", "d",
      "!">>),
    \* tables_fail_1: [.]
    A(<<"[", ".", "]">>),
    \* tables_fail_2: [hello
    A(<<"[", "h", "e", "l", "l", "o">>),
    \* tables_fail_3: [hello.]
    A(<<"[", "h", "e", "l", "l", "o", ".", "]">>),
    \* tables_fail_4: [.world]
    A(<<"[", ".", "w", "o", "r", "l", "d", "]">>),
    \* tables_fail_5: [hello.\nworld]
    A(<<"[", "h", "e", "l", "l", "o", ".">>) \o <<LF>> \o A(<<"w", "o", "r",
      "l", "d", "]">>),
    \* tables_fail_6: [hello.'''world''']
    A(<<"[", "h", "e", "l", "l", "o", ".", "'", "'", "'", "w", "o", "r", "l",
      "d", "'", "'", "'", "]">>),
    \* tables_fail_7: [hello."""world"""]
    A(<<"[", "h", "e", "l", "l", "o", ".", "DQ", "DQ", "DQ", "w", "o", "r",
      "l", "d", "DQ", "DQ", "DQ", "]">>),
    \* tables_fail_8: [[.]]
    A(<<"[", "[", ".", "]", "]">>),
    \* tables_fail_9: [[hello
    A(<<"[", "[", "h", "e", "l", "l", "o">>),
    \* tables_fail_10: [[hello]
    A(<<"[", "[", "h", "e", "l", "l", "o", "]">>),
    \* tables_fail_11: [[hello.]]
    A(<<"[", "[", "h", "e", "l", "l", "o", ".", "]", "]">>),
    \* tables_fail_12: [[.world]]
    A(<<"[", "[", ".", "w", "o", "r", "l", "d", "]", "]">>),
    \* tables_fail_13: [[hello.\nworld]]
    A(<<"[", "[", "h", "e", "l", "l", "o", ".">>) \o <<LF>> \o A(<<"w", "o",
      "r", "l", "d", "]", "]">>),
    \* tables_fail_14: [[hello.'''world''']]
    A(<<"[", "[", "h", "e", "l", "l", "o", ".", "'", "'", "'", "w", "o", "r",
      "l", "d", "'", "'", "'", "]", "]">>),
    \* tables_fail_15: [[hello."""world"""]]
    A(<<"[", "[", "h", "e", "l", "l", "o", ".", "DQ", "DQ", "DQ", "w", "o",
      "r", "l", "d", "DQ", "DQ", "DQ", "]", "]">>),
    \* tables_success_1: [test-1]
    A(<<"[", "t", "e", "s", "t", "-", "1", "]">>),
    \* tables_success_2: [hello.world]
    A(<<"[", "h", "e", "l", "l", "o", ".", "w", "o", "r", "l", "d", "]">>),
    \* tables_success_3: [hello."zing bing bang"]
    A(<<"[", "h", "e", "l", "l", "o", ".", "DQ", "z", "i", "n", "g", " ",
      "b", "i", "n", "g", " ", "b", "a", "n", "g", "DQ", "]">>),
    \* tables_success_4: [ j . "????" . 'l' ]
    A(<<"[", " ", "j", " ", ".", " ", "DQ", "?", "?", "?", "?", "DQ", " ",
      ".", " ", "'", "l", "'", " ", "]">>),
    \* arrays_fail_1: a = [,]
    A(<<"a", " ", "=", " ", "[", ",", "]">>),
    \* arrays_fail_2: a = [true false]
    A(<<"a", " ", "=", " ", "[", "t", "r", "u", "e", " ", "f", "a", "l", "s",
      "e", "]">>),
    \* arrays_success_1: a = []
    A(<<"a", " ", "=", " ", "[", "]">>),
    \* arrays_success_2: a = [\n                true      ,\n                false # false is false\n            ]
    A(<<"a", " ", "=", " ", "[">>) \o <<LF>> \o A(<<" ", " ", " ", " ", " ",
      " ", " ", " ", " ", " ", " ", " ", " ", " ", " ", " ", "t", "r", "u",
      "e", " ", " ", " ", " ", " ", " ", ",">>) \o <<LF>> \o A(<<" ", " ",
      " ", " ", " ", " ", " ", " ", " ", " ", " ", " ", " ", " ", " ", " ",
      "f", "a", "l", "s", "e", " ", "#", " ", "f", "a", "l", "s", "e", " ",
      "i", "s", " ", "f", "a", "l", "s", "e">>) \o <<LF>> \o A(<<" ", " ",
      " ", " ", " ", " ", " ", " ", " ", " ", " ", " ", "]">>),
    \* arrays_success_3: colors = [ "red", "yellow", [ "green", "purple", ], ]
    A(<<"c", "o", "l", "o", "r", "s", " ", "=", " ", "[", " ", "DQ", "r",
      "e", "d", "DQ", ",", " ", "DQ", "y", "e", "l", "l", "o", "w", "DQ",
      ",", " ", "[", " ", "DQ", "g", "r", "e", "e", "n", "DQ", ",", " ",
      "DQ", "p", "u", "r", "p", "l", "e", "DQ", ",", " ", "]", ",", " ",
      "]">>),
    \* inline_tables_fail_1: colors = { red = true, }
    A(<<"c", "o", "l", "o", "r", "s", " ", "=", " ", "{", " ", "r", "e", "d",
      " ", "=", " ", "t", "r", "u", "e", ",", " ", "}">>),
    \* inline_tables_fail_2: colors = { red\n            = true }
    A(<<"c", "o", "l", "o", "r", "s", " ", "=", " ", "{", " ", "r", "e",
      "d">>) \o <<LF>> \o A(<<" ", " ", " ", " ", " ", " ", " ", " ", " ",
      " ", " ", " ", "=", " ", "t", "r", "u", "e", " ", "}">>),
    \* inline_tables_success_1: colors = { red = true }
    A(<<"c", "o", "l", "o", "r", "s", " ", "=", " ", "{", " ", "r", "e", "d",
      " ", "=", " ", "t", "r", "u", "e", " ", "}">>),
    \* inline_tables_success_2: colors = { red = true, green = '0x00ff00' }
    A(<<"c", "o", "l", "o", "r", "s", " ", "=", " ", "{", " ", "r", "e", "d",
      " ", "=", " ", "t", "r", "u", "e", ",", " ", "g", "r", "e", "e", "n",
      " ", "=", " ", "'", "0", "x", "0", "0", "f", "f", "0", "0", "'", " ",
      "}">>),
    \* inline_tables_success_3: animal = { type.name = "pug" }
    A(<<"a", "n", "i", "m", "a", "l", " ", "=", " ", "{", " ", "t", "y", "p",
      "e", ".", "n", "a", "m", "e", " ", "=", " ", "DQ", "p", "u", "g", "DQ",
      " ", "}">>),
    \* inline_tables_success_4: points = [ { x = +1, y = +2, z = +3 },\n           { x = +7, y = +8, z = +9 },\n           { x = +2, y = +4, z = +8 } ]
    A(<<"p", "o", "i", "n", "t", "s", " ", "=", " ", "[", " ", "{", " ", "x",
      " ", "=", " ", "+", "1", ",", " ", "y", " ", "=", " ", "+", "2", ",",
      " ", "z", " ", "=", " ", "+", "3", " ", "}",
      ",">>) \o <<LF>> \o A(<<" ", " ", " ", " ", " ", " ", " ", " ", " ",
      " ", " ", "{", " ", "x", " ", "=", " ", "+", "7", ",", " ", "y", " ",
      "=", " ", "+", "8", ",", " ", "z", " ", "=", " ", "+", "9", " ", "}",
      ",">>) \o <<LF>> \o A(<<" ", " ", " ", " ", " ", " ", " ", " ", " ",
      " ", " ", "{", " ", "x", " ", "=", " ", "+", "2", ",", " ", "y", " ",
      "=", " ", "+", "4", ",", " ", "z", " ", "=", " ", "+", "8", " ", "}",
      " ", "]">>)
  }

(***************************************************************************)
(* The state machine: one action for each routine or loop of the scanner.  *)
(***************************************************************************)
ScanLoop == pc = "scan" /\ Apply(scan(State))

ScanEnd == pc = "scan_end" /\ Apply(scan_end(State))

ConsumeComment == pc = "consume_comment" /\ Apply(consume_comment(State))

ConsumeCommentLoop == pc = "consume_comment_loop" /\ Apply(consume_comment_loop(State))

ConsumeLine == pc = "consume_line" /\ Apply(consume_line(State))

SkipWhitespaceAndComment == pc = "skip_whitespace_and_comment" /\ Apply(skip_whitespace_and_comment(State))

SkipWhitespace == pc = "skip_whitespace" /\ Apply(Return(skip_whitespace(State)))

ScanKey == pc = "scan_key" /\ Apply(scan_key(State))

ScanKeyLoop == pc = "scan_key_loop" /\ Apply(scan_key_loop(State))

ScanMultilineBasicString == pc = "scan_multiline_basic_string" /\ Apply(scan_multiline_basic_string(State))

ScanMultilineBasicStringLoop == pc = "scan_multiline_basic_string_loop" /\ Apply(scan_multiline_basic_string_loop(State))

ScanBasicString == pc = "scan_basic_string" /\ Apply(scan_basic_string(State))

ScanBasicStringLoop == pc = "scan_basic_string_loop" /\ Apply(scan_basic_string_loop(State))

ScanMultilineLiteralString == pc = "scan_multiline_literal_string" /\ Apply(scan_multiline_literal_string(State))

ScanLiteralString == pc = "scan_literal_string" /\ Apply(scan_literal_string(State))

ScanString == pc = "scan_string" /\ Apply(scan_string(State))

ScanSingleLineString == pc = "scan_single_line_string" /\ Apply(scan_single_line_string(State))

ScanNumber == pc = "scan_number" /\ Apply(scan_number(State))

ScanNumberHex == pc = "scan_number_hex" /\ Apply(scan_number_hex(State))

ScanNumberOctal == pc = "scan_number_octal" /\ Apply(scan_number_octal(State))

ScanNumberBinary == pc = "scan_number_binary" /\ Apply(scan_number_binary(State))

ScanNumberDecimal == pc = "scan_number_decimal" /\ Apply(scan_number_decimal(State))

ScanNumberOrDate == pc = "scan_number_or_date" /\ Apply(scan_number_or_date(State))

ScanValue == pc = "scan_value" /\ Apply(scan_value(State))

ScanArray == pc = "scan_array" /\ Apply(scan_array(State))

ScanArrayFirst == pc = "scan_array_first" /\ Apply(scan_array_first(State))

ScanArrayDelim == pc = "scan_array_delim" /\ Apply(scan_array_delim(State))

ScanArrayComma == pc = "scan_array_comma" /\ Apply(scan_array_comma(State))

ScanInlineTable == pc = "scan_inline_table" /\ Apply(scan_inline_table(State))

ScanInlineTableLoop == pc = "scan_inline_table_loop" /\ Apply(scan_inline_table_loop(State))

ScanKeyLike == pc = "scan_key_like" /\ Apply(scan_key_like(State))

ScanDotted == pc = "scan_dotted" /\ Apply(scan_dotted(State))

ScanDottedLoop == pc = "scan_dotted_loop" /\ Apply(scan_dotted_loop(State))

ScanTable == pc = "scan_table" /\ Apply(scan_table(State))

ScanTableLoop == pc = "scan_table_loop" /\ Apply(scan_table_loop(State))

ScanTableClose == pc = "scan_table_close" /\ Apply(scan_table_close(State))

ScanTableEnd == pc = "scan_table_end" /\ Apply(scan_table_end(State))

Next ==
  \/ ScanLoop
  \/ ScanEnd
  \/ ConsumeComment
  \/ ConsumeCommentLoop
  \/ ConsumeLine
  \/ SkipWhitespaceAndComment
  \/ SkipWhitespace
  \/ ScanKey
  \/ ScanKeyLoop
  \/ ScanMultilineBasicString
  \/ ScanMultilineBasicStringLoop
  \/ ScanBasicString
  \/ ScanBasicStringLoop
  \/ ScanMultilineLiteralString
  \/ ScanLiteralString
  \/ ScanString
  \/ ScanSingleLineString
  \/ ScanNumber
  \/ ScanNumberHex
  \/ ScanNumberOctal
  \/ ScanNumberBinary
  \/ ScanNumberDecimal
  \/ ScanNumberOrDate
  \/ ScanValue
  \/ ScanArray
  \/ ScanArrayFirst
  \/ ScanArrayDelim
  \/ ScanArrayComma
  \/ ScanInlineTable
  \/ ScanInlineTableLoop
  \/ ScanKeyLike
  \/ ScanDotted
  \/ ScanDottedLoop
  \/ ScanTable
  \/ ScanTableLoop
  \/ ScanTableClose
  \/ ScanTableEnd

(***************************************************************************)
(* The inputs of each specification.  Every specification scans the unit   *)
(* tests' inputs and Samples, and one family of inputs built from a bound. *)
(***************************************************************************)
\* One input for each routine the unit tests never enter.
Samples ==
  {A(<<"a", "=", "DQ", "DQ", "DQ", "x", "DQ", "DQ", "DQ">>),
   A(<<"a", "=", "'", "'", "'", "x", "'", "'", "'">>),
   A(<<"a", "=", "+", "0", "x", "f">>),
   A(<<"a", "=", "+", "0", "o", "7">>),
   A(<<"a", "=", "+", "0", "b", "1">>),
   A(<<"a", "=", "1">>)}

Base == Tests \cup Samples

\* Every sequence of at most n elements of S.
BSeq(S, n) == UNION {[1..k -> S] : k \in 0..n}

\* The concatenation of a sequence of byte sequences.
RECURSIVE Flatten(_)
Flatten(toks) ==
  IF toks = <<>> THEN <<>> ELSE Head(toks) \o Flatten(Tail(toks))

\* Short inputs over the bytes the top-level loop and the key paths tell apart.
MaxTopLen == 4

TopAlphabet ==
  {Ord["a"], Ord["="], Ord["."], Ord["'"], Ord["["], Ord["]"], Ord["1"],
   SP, LF, NUL}

TopTexts == BSeq(TopAlphabet, MaxTopLen)

\* a=""" followed by a body of quotes, backslashes and the letter n.
MaxMlBody == 7

MlBasicTexts ==
  {A(<<"a", "=", "DQ", "DQ", "DQ">>) \o b :
     b \in BSeq({DQ, BSLASH, Ord["n"]}, MaxMlBody)}

\* a=+ followed by digits, base letters and underscores.
MaxNumBody == 4

NumberTexts ==
  {A(<<"a", "=", "+">>) \o b :
     b \in BSeq({Ord["0"], Ord["1"], Ord["x"], Ord["o"], Ord["b"], Ord["_"]},
                MaxNumBody)}

\* a=[ followed by elements, delimiters, whitespace, newlines and comments.
MaxArrayToks == 4

ArrayTokens ==
  {A(<<"t", "r", "u", "e">>), A(<<",">>), A(<<"]">>), A(<<" ">>), A(<<"#">>),
   <<LF>>}

ArrayTexts ==
  {A(<<"a", "=", "[">>) \o Flatten(toks) : toks \in BSeq(ArrayTokens, MaxArrayToks)}

\* inf and nan, with and without a sign, before everything that may follow a
\* value: at the top level, and as the element of an array.
FloatWords == {A(<<"i", "n", "f">>), A(<<"n", "a", "n">>)}

FloatSigns == {<<>>, A(<<"+">>), A(<<"-">>)}

FloatContexts ==
  {<<A(<<"a", "=">>), <<>>>>,
   <<A(<<"a", "=">>), A(<<" ">>)>>,
   <<A(<<"a", "=">>), <<TAB>>>>,
   <<A(<<"a", "=">>), A(<<"#", "c">>)>>,
   <<A(<<"a", "=">>), <<LF>>>>,
   <<A(<<"a", "=">>), <<CR, LF>>>>,
   <<A(<<"a", "=", "[">>), A(<<"]">>)>>,
   <<A(<<"a", "=", "[">>), A(<<",", "]">>)>>,
   <<A(<<"a", "=", "[">>), A(<<" ", "]">>)>>}

FloatTexts ==
  {c[1] \o g \o w \o c[2] : c \in FloatContexts, g \in FloatSigns, w \in FloatWords}

\* Lex::new on one of the inputs of T.
InitOn(T) ==
  \E t \in T :
    LET n == new(t) IN
    /\ text = n.text
    /\ index = n.index
    /\ current = n.current
    /\ symbols = n.symbols
    /\ pc = n.pc
    /\ stack = n.stack
    /\ start = n.start
    /\ quote_count = n.quote_count
    /\ slash_count = n.slash_count
    /\ allow_underscore = n.allow_underscore
    /\ saw_dot = n.saw_dot
    /\ is_array = n.is_array
    /\ result = n.result

Init == InitOn(Base \cup TopTexts)

Spec == Init /\ [][Next]_vars

InitStrings == InitOn(Base \cup MlBasicTexts)

SpecStrings == InitStrings /\ [][Next]_vars

InitNumbers == InitOn(Base \cup NumberTexts)

SpecNumbers == InitNumbers /\ [][Next]_vars

InitValues == InitOn(Base \cup ArrayTexts \cup FloatTexts)

SpecValues == InitValues /\ [][Next]_vars

(***************************************************************************)
(* Vocabulary of the properties.                                           *)
(***************************************************************************)
Done == pc = "done"

ScanOk == pc = "done" /\ result.kind = "Ok"

Kinds(syms) == [i \in 1..Len(syms) |-> syms[i].sym]

Positions(syms, k) == {i \in 1..Len(syms) : syms[i].sym = k}

\* The nine variants of enum Error.
ErrorKinds ==
  {"ControlCharacter", "TooManyQuotesInString", "UnterminatedString",
   "MultilineKey", "MultilineString", "MissingDelimiter", "UnconsumedInput",
   "Expected", "Unexpected"}

\* The bytes of t at offsets lo .. hi-1, offsets counted from 0.
Slice(t, lo, hi) == SubSeq(t, lo + 1, hi)

\* A line ending starts at offset p of t.
NewlineAt(t, p) ==
  ByteAt(t, p) = LF \/ (ByteAt(t, p) = CR /\ ByteAt(t, p + 1) = LF)

(***************************************************************************)
(* C1.  When scan returns Ok the cursor is at the end of the text, and the *)
(* stream holds exactly one Eof, as its last symbol, positioned at  the    *)
(* length of the text.                                                     *)
(***************************************************************************)
C1_OkEndsWithOneEof ==
  ScanOk =>
    /\ index = Len(text)
    /\ Cardinality(Positions(symbols, "Eof")) = 1
    /\ symbols[Len(symbols)].sym = "Eof"
    /\ symbols[Len(symbols)].lo = Len(text)

\* A successful scan of an assignment: symbols before the Eof.
C1_Witness ==
  /\ ScanOk
  /\ Len(text) > 0
  /\ Len(symbols) > 3
  /\ symbols[Len(symbols)].sym = "Eof"

(***************************************************************************)
(* C2.  Every scan that ends, ends with Ok and an Eof pushed, or with one  *)
(* of the nine errors: never with a panic.                                 *)
(***************************************************************************)
C2_EndsOkOrErr ==
  Done =>
    \/ result.kind = "Ok" /\ Positions(symbols, "Eof") # {}
    \/ result.kind \in ErrorKinds

(***************************************************************************)
(* C3.  After a successful scan the span of each payload symbol holds the  *)
(* literal content and nothing else: a Bool is true or false, a Float is   *)
(* inf or nan, a Key is made of bare-key bytes, an Integer of sign, digit, *)
(* base-letter and underscore bytes, and a String stops right before its   *)
(* closing delimiter, which repeats the quotes that opened it.             *)
(***************************************************************************)
IsNumberByte(c) ==
  \/ c \in Ord["0"]..Ord["9"]
  \/ c \in Ord["a"]..Ord["f"]
  \/ c \in Ord["A"]..Ord["F"]
  \/ c \in {Ord["+"], Ord["-"], Ord["_"], Ord["x"], Ord["X"], Ord["o"], Ord["O"]}

PayloadKinds == {"Key", "String", "Integer", "Float", "Bool"}

\* The length of the delimiter that opens the string whose body starts at lo.
OpeningLen(t, lo) ==
  IF lo >= 3 /\ ByteAt(t, lo - 2) = ByteAt(t, lo - 1)
             /\ ByteAt(t, lo - 3) = ByteAt(t, lo - 1)
    THEN 3 ELSE 1

SpanIsContent(t, y) ==
  /\ y.lo <= y.hi
  /\ y.hi <= Len(t)
  /\ CASE y.sym = "Bool" ->
            Slice(t, y.lo, y.hi) \in
              {A(<<"t", "r", "u", "e">>), A(<<"f", "a", "l", "s", "e">>)}
       [] y.sym = "Float" ->
            Slice(t, y.lo, y.hi) \in {A(<<"i", "n", "f">>), A(<<"n", "a", "n">>)}
       [] y.sym = "Key" ->
            /\ y.lo < y.hi
            /\ \A i \in y.lo..(y.hi - 1) : IsBareKeyByte(ByteAt(t, i))
       [] y.sym = "Integer" ->
            /\ y.lo < y.hi
            /\ \A i \in y.lo..(y.hi - 1) : IsNumberByte(ByteAt(t, i))
       [] y.sym = "String" ->
            /\ y.lo > 0
            /\ IsQuote(ByteAt(t, y.lo - 1))
            /\ \A j \in 0..(OpeningLen(t, y.lo) - 1) :
                 ByteAt(t, y.hi + j) = ByteAt(t, y.lo - 1)

C3_SpansAreContent ==
  ScanOk =>
    \A i \in 1..Len(symbols) :
      symbols[i].sym \in PayloadKinds => SpanIsContent(text, symbols[i])

(***************************************************************************)
(* C4.  A value that starts with a decimal digit is scanned as a number:   *)
(* the scan of  a=<digits>  ends Ok with one Integer symbol that spans the *)
(* digits.                                                                 *)
(***************************************************************************)
IsDigitAssignment(t) ==
  /\ Len(t) >= 3
  /\ t[1] = Ord["a"]
  /\ t[2] = Ord["="]
  /\ \A i \in 3..Len(t) : t[i] \in Ord["0"]..Ord["9"]

C4_DigitValueIsInteger ==
  (Done /\ IsDigitAssignment(text)) =>
    /\ result.kind = "Ok"
    /\ \E i \in 1..Len(symbols) :
         symbols[i] = [sym |-> "Integer", lo |-> 2, hi |-> Len(text)]

(***************************************************************************)
(* C5.  When a routine that scans a key path (scan_key, scan_dotted or the *)
(* loop of scan_table) fails on a newline, the error is MultilineKey at    *)
(* the newline's offset.                                                   *)
(***************************************************************************)
KeyPathLoops == {"scan_key_loop", "scan_dotted_loop", "scan_table_loop"}

C5_NewlineInKeyIsMultilineKey ==
  [][(/\ pc \in KeyPathLoops
      /\ pc' = "done"
      /\ result'.kind \in ErrorKinds
      /\ NewlineAt(text, result'.pos))
     => result'.kind = "MultilineKey"]_vars

(***************************************************************************)
(* C6.  In a multi-line basic string a quote is treated as escaped, that   *)
(* is, it does not count toward the closing run, exactly when an odd       *)
(* number of consecutive backslashes comes immediately before it.          *)
(***************************************************************************)
\* The number of consecutive backslashes that end right before offset i of t.
RECURSIVE BackslashRun(_, _)
BackslashRun(t, i) ==
  IF i > 0 /\ ByteAt(t, i - 1) = BSLASH THEN 1 + BackslashRun(t, i - 1) ELSE 0

Escaped(t, i) == BackslashRun(t, i) % 2 = 1

C6_EscapedIffOddBackslashes ==
  [][(/\ pc = "scan_multiline_basic_string_loop"
      /\ current = DQ
      /\ pc' = pc)
     => (quote_count' = 0 <=> Escaped(text, index))]_vars

(***************************************************************************)
(* C7.  In a multi-line basic string the first run of k >= 3 consecutive   *)
(* unescaped quotes decides the scan: 3 <= k <= 5 closes the string and    *)
(* leaves the cursor on the byte after the run, k >= 6 fails with          *)
(* TooManyQuotesInString whose start is the first body byte; with no such  *)
(* run the scan fails with UnterminatedString.                             *)
(***************************************************************************)
UnescapedQuote(t, i) == ByteAt(t, i) = DQ /\ ~Escaped(t, i)

\* The number of consecutive quotes of t from offset i on.
RECURSIVE QuoteRun(_, _)
QuoteRun(t, i) == IF ByteAt(t, i) = DQ THEN 1 + QuoteRun(t, i + 1) ELSE 0

\* The offsets, from the first body byte on, where a run of three or more
\* unescaped quotes starts.
ClosingRuns(t, from) ==
  {i \in from..(Len(t) - 1) :
     /\ UnescapedQuote(t, i)
     /\ (i = from \/ ~UnescapedQuote(t, i - 1))
     /\ QuoteRun(t, i) >= 3}

C7_RunLengthDecides ==
  [][(pc = "scan_multiline_basic_string_loop" /\ pc' # pc) =>
       LET runs == ClosingRuns(text, start) IN
       IF runs = {} THEN result'.kind = "UnterminatedString"
       ELSE LET i == Min(runs)
                k == QuoteRun(text, i)
            IN IF k <= 5
                 THEN /\ result'.kind = "None"
                      /\ index' = i + k
                      /\ Len(symbols') = Len(symbols) + 1
                      /\ symbols'[Len(symbols')].sym = "String"
                 ELSE /\ result'.kind = "TooManyQuotesInString"
                      /\ result'.start = start]_vars

(***************************************************************************)
(* C8.  In each of the four numeric modes a '_' that comes right after a   *)
(* digit of the base is accepted and the scan moves on to the next byte; a *)
(* '_' that does not come right after a digit fails with Unexpected at the *)
(* '_'.                                                                    *)
(***************************************************************************)
NumberLoops ==
  {"scan_number_hex", "scan_number_octal", "scan_number_binary",
   "scan_number_decimal"}

\* c is a digit of the base that the loop named by p scans.
IsDigitOf(p, c) ==
  CASE p = "scan_number_hex" ->
         \/ c \in Ord["0"]..Ord["9"]
         \/ c \in Ord["a"]..Ord["f"]
         \/ c \in Ord["A"]..Ord["F"]
    [] p = "scan_number_octal" -> c \in Ord["0"]..Ord["7"]
    [] p = "scan_number_binary" -> c \in Ord["0"]..Ord["1"]
    [] OTHER -> c \in Ord["0"]..Ord["9"]

\* The byte right before offset i of t is a digit of the base of loop p (the
\* letter of a base prefix is not one).
AfterDigit(p, t, i) == i > 0 /\ IsDigitOf(p, ByteAt(t, i - 1))

C8_UnderscoreRuleInEveryBase ==
  [][(pc \in NumberLoops /\ current = Ord["_"]) =>
       IF AfterDigit(pc, text, index)
         THEN pc' = pc /\ index' = index + 1
         ELSE result' = [kind |-> "Unexpected", pos |-> index]]_vars

(***************************************************************************)
(* C9.  An input with an array that scans successfully with \n line        *)
(* endings scans successfully, with the same sequence of symbol kinds,     *)
(* when each \n is replaced by \r\n.                                       *)
(***************************************************************************)
\* t with each \n replaced by \r\n.
RECURSIVE CrLf(_)
CrLf(t) ==
  IF t = <<>> THEN <<>>
  ELSE (IF Head(t) = LF THEN <<CR, LF>> ELSE <<Head(t)>>) \o CrLf(Tail(t))

C9_ArrayCrLfAsLf ==
  (ScanOk /\ Positions(symbols, "Array") # {}) =>
    \A r \in LexScan(CrLf(text)) :
      /\ r.result.kind = "Ok"
      /\ Kinds(r.symbols) = Kinds(symbols)

(***************************************************************************)
(* C10.  inf and nan, with or without a sign, give one Float symbol        *)
(* whatever legal byte follows them: the end of the input, a space or tab, *)
(* a comment, a newline, or a ',' or ']' in an array.                      *)
(***************************************************************************)
C10_InfNanIsFloat ==
  (Done /\ text \in FloatTexts) =>
    /\ result.kind = "Ok"
    /\ Cardinality(Positions(symbols, "Float")) = 1

(***************************************************************************)
(* C11.  In every reachable state of a scan, every symbol pushed so far    *)
(* has a span with lo <= hi <= len(text): Eof, TableEnd, Bool and Float    *)
(* symbols pushed at the end of the input included.                        *)
(***************************************************************************)
SpanWithin(t, y) == y.lo <= y.hi /\ y.hi <= Len(t)

C11_SpansWithinText ==
  \A i \in 1..Len(symbols) : SpanWithin(text, symbols[i])

(***************************************************************************)
(* C12.  When a multi-line basic string closes, the cursor is on the byte  *)
(* after the closing run and the last three quotes of the run are the      *)
(* delimiter: the String symbol's span starts at the first body byte and   *)
(* ends right before the delimiter, so it holds the body and the quotes of *)
(* the run that come before the delimiter, and nothing else.               *)
(***************************************************************************)
C12_MlBasicSpanIsBody ==
  [][(/\ pc = "scan_multiline_basic_string_loop"
      /\ pc' # pc
      /\ result'.kind = "None")
     => LET y == symbols'[Len(symbols')] IN
        /\ Len(symbols') = Len(symbols) + 1
        /\ y.sym = "String"
        /\ y.lo = start
        /\ y.hi = index' - 3
        /\ \A j \in 1..3 : ByteAt(text, index' - j) = DQ]_vars

(***************************************************************************)
(* Multi-line literal strings: a=''' followed by a body of single quotes   *)
(* and the letter x.                                                       *)
(***************************************************************************)
MaxLitBody == 7

MlLiteralTexts ==
  {A(<<"a", "=", "'", "'", "'">>) \o b : b \in BSeq({SQ, Ord["x"]}, MaxLitBody)}

InitLiterals == InitOn(Base \cup MlLiteralTexts)

SpecLiterals == InitLiterals /\ [][Next]_vars

(***************************************************************************)
(* C13.  When a multi-line literal string closes, the last three quotes    *)
(* before the cursor are the delimiter: the String symbol's span starts at *)
(* the first body byte and ends right before the delimiter, so it holds    *)
(* the body with the quotes that precede the delimiter and none of the     *)
(* delimiter's bytes; an empty body gives an empty span.                   *)
(***************************************************************************)
C13_MlLiteralSpanIsBody ==
  [][(/\ pc = "scan_multiline_literal_string"
      /\ result'.kind = "None")
     => LET y == symbols'[Len(symbols')] IN
        /\ Len(symbols') = Len(symbols) + 1
        /\ y.sym = "String"
        /\ y.lo = index + 3
        /\ y.hi = index' - 3
        /\ \A j \in 1..3 : ByteAt(text, index' - j) = SQ]_vars

(***************************************************************************)
(* C14.  When no ''' comes after the opening ''' of a multi-line literal   *)
(* string, the scan fails with UnterminatedString whose start is the first *)
(* body byte and whose pos is the length of the text.                      *)
(***************************************************************************)
\* No three single quotes in a row start at or after offset from of t.
NoTripleQuote(t, from) ==
  ~\E i \in from..(Len(t) - 3) : \A k \in 0..2 : ByteAt(t, i + k) = SQ

C14_MlLiteralUnterminatedAtEnd ==
  [][(/\ pc = "scan_multiline_literal_string"
      /\ NoTripleQuote(text, index + 3))
     => result' = [kind |-> "UnterminatedString", start |-> index + 3,
                   pos |-> Len(text)]]_vars

(***************************************************************************)
(* C15.  scan_table starts on the first '[' of a header and pushes Table,  *)
(* or ArrayOfTable when a second '[' follows, positioned at the offset of  *)
(* that first '['.                                                         *)
(***************************************************************************)
C15_TableSymbolAtFirstBracket ==
  [][pc = "scan_table"
     => LET y == symbols'[Len(symbols')] IN
        /\ Len(symbols') = Len(symbols) + 1
        /\ ByteAt(text, index) = Ord["["]
        /\ y.sym = (IF ByteAt(text, index + 1) = Ord["["]
                      THEN "ArrayOfTable" ELSE "Table")
        /\ y.lo = index]_vars

(***************************************************************************)
(* Carriage returns: a \r after each context that precedes a line ending,  *)
(* followed by nothing, by a letter, or by \n.                             *)
(***************************************************************************)
CrContexts ==
  {<<>>, A(<<" ">>), A(<<"#", "c">>), A(<<"a">>), A(<<"a", " ">>),
   A(<<"a", ".">>), A(<<"a", "=">>), A(<<"a", "=", " ">>),
   A(<<"a", "=", "t", "r", "u", "e">>), A(<<"a", "=", "t", "r", "u", "e", " ">>),
   A(<<"a", "=", "'", "b", "'">>), A(<<"a", "=", "+", "1">>),
   A(<<"a", "=", "[">>), A(<<"a", "=", "[", "t", "r", "u", "e">>),
   A(<<"a", "=", "[", "t", "r", "u", "e", ",">>),
   A(<<"[">>), A(<<"[", "a">>), A(<<"[", "a", ".">>), A(<<"[", "a", "]">>),
   A(<<"[", "[", "a", "]", "]">>),
   A(<<"a", "=", "{">>), A(<<"a", "=", "{", "b">>),
   A(<<"a", "=", "{", "b", "=", "t", "r", "u", "e">>)}

CrTexts ==
  {c \o <<CR>> \o e : c \in CrContexts, e \in {<<>>, A(<<"x">>), <<LF>>}}

InitLines == InitOn(Base \cup CrTexts)

SpecLines == InitLines /\ [][Next]_vars

(***************************************************************************)
(* C16.  A \r whose next byte is not \n, met outside a string body, ends   *)
(* the scan with ControlCharacter at the offset of the \r: the cursor      *)
(* never moves past it, and no other error is reported at it.              *)
(***************************************************************************)
LoneCrAt(t, p) == ByteAt(t, p) = CR /\ ByteAt(t, p + 1) # LF

\* The routines whose cursor is inside a string.
StringRoutines ==
  {"scan_string", "scan_single_line_string", "scan_basic_string",
   "scan_basic_string_loop", "scan_multiline_basic_string",
   "scan_multiline_basic_string_loop", "scan_literal_string",
   "scan_multiline_literal_string"}

C16_LoneCrIsControlCharacter ==
  [][pc \notin StringRoutines =>
       /\ LoneCrAt(text, index) => index' = index
       /\ (pc' = "done" /\ result'.kind # "Ok" /\ LoneCrAt(text, index'))
            => result' = [kind |-> "ControlCharacter", pos |-> index']]_vars

(***************************************************************************)
(* Nested arrays: a=[ followed by elements, brackets, commas and line      *)
(* endings of both kinds.                                                  *)
(***************************************************************************)
MaxNestToks == 5

NestTokens ==
  {A(<<"t", "r", "u", "e">>), A(<<",">>), A(<<"[">>), A(<<"]">>), <<LF>>,
   <<CR, LF>>}

NestedArrayTexts ==
  {A(<<"a", "=", "[">>) \o Flatten(toks) : toks \in BSeq(NestTokens, MaxNestToks)}

InitArrays == InitOn(Base \cup NestedArrayTexts)

SpecArrays == InitArrays /\ [][Next]_vars

(***************************************************************************)
(* C17.  In an array, the next significant byte after an element is ','    *)
(* or ']', or the scan fails with MissingDelimiter at that byte; after a   *)
(* ',' a ']' closes the array (trailing comma), at every depth; and a ','  *)
(* where an element is required fails with Unexpected at the ','.          *)
(***************************************************************************)
\* The offset, from i on, of the first byte of t that ends a comment.
RECURSIVE CommentEnd(_, _)
CommentEnd(t, i) ==
  IF i >= Len(t) \/ ByteAt(t, i) \in 0..31 \/ ByteAt(t, i) = DEL THEN i
  ELSE CommentEnd(t, i + 1)

\* The offset, from i on, of the first byte of t that is not part of a run
\* of spaces, tabs, line endings and comments.
RECURSIVE NextSignificant(_, _)
NextSignificant(t, i) ==
  LET b == ByteAt(t, i) IN
  IF i >= Len(t) THEN i
  ELSE IF b \in {SP, TAB, LF} THEN NextSignificant(t, i + 1)
  ELSE IF b = CR /\ ByteAt(t, i + 1) = LF THEN NextSignificant(t, i + 2)
  ELSE IF b = HASH THEN NextSignificant(t, CommentEnd(t, i + 1))
  ELSE i

\* The array is closed by the ']' at offset p.
ClosesAt(p) ==
  /\ pc' # "done"
  /\ index' = p + 1
  /\ symbols' = Append(symbols, [sym |-> "ArrayEnd", lo |-> p, hi |-> p + 1])

C17_ArrayDelimiters ==
  [][/\ pc = "scan_array_delim" =>
          LET p == NextSignificant(text, index)
              b == ByteAt(text, p)
          IN IF b = Ord["]"] THEN ClosesAt(p)
             ELSE IF b = Ord[","] THEN pc' # "done" /\ index' = p + 1
             ELSE IF LoneCrAt(text, p) THEN pc' = "done"
             ELSE result' = [kind |-> "MissingDelimiter", pos |-> p]
     /\ pc = "scan_array_comma" =>
          LET q == NextSignificant(text, index) IN
          IF ByteAt(text, q) = Ord["]"] THEN ClosesAt(q)
          ELSE pc' = "scan_value" /\ index' = q
     /\ (pc = "scan_value" /\ current = Ord[","]) =>
          result' = [kind |-> "Unexpected", pos |-> index]]_vars

(***************************************************************************)
(* Inline tables: a={ followed by key/value pairs, nested tables, commas,  *)
(* closing braces, spaces, line endings and comment signs.  No token is a  *)
(* prefix of another, so a text has one sequence of tokens.                *)
(***************************************************************************)
MaxInlineToks == 4

\* The tokens that may not occur inside an inline table.
InlineBreaks == {<<LF>>, <<CR, LF>>, A(<<"#">>)}

InlineOpen == A(<<"b", "=", "{">>)

InlineClose == A(<<"}">>)

\* A pair whose value is an array with a line ending between its brackets.
InlineArrayPair == A(<<"b", "=", "[">>) \o <<LF>> \o A(<<"]">>)

InlineTokens ==
  {A(<<"b", "=", "t", "r", "u", "e">>), A(<<"b", "=", "'", "#", "'">>),
   InlineArrayPair, InlineOpen, InlineClose, A(<<",">>), A(<<" ">>)}
    \cup InlineBreaks

InlineTokenSeqs == BSeq(InlineTokens, MaxInlineToks)

InlineTextOf(toks) == A(<<"a", "=", "{">>) \o Flatten(toks)

InlineTexts == {InlineTextOf(toks) : toks \in InlineTokenSeqs}

InitInline == InitOn(Base \cup InlineTexts)

SpecInline == InitInline /\ [][Next]_vars

(***************************************************************************)
(* C18.  An inline table with a line ending or a '#' between its braces,   *)
(* outside a string and outside an array that is one of its values, never  *)
(* scans successfully.  After a value the next byte that is not a space or *)
(* tab must be ',' or '}', or the scan fails with MissingDelimiter at that *)
(* byte; and a '}' that follows a ',' fails with Unexpected at the '}'.    *)
(***************************************************************************)
\* The number of inline tables open before token i of toks: 0 once the
\* table that a={ opens is closed.
RECURSIVE InlineDepth(_, _)
InlineDepth(toks, i) ==
  IF i = 1 THEN 1
  ELSE LET d == InlineDepth(toks, i - 1) IN
       IF d = 0 THEN 0
       ELSE IF toks[i - 1] = InlineOpen THEN d + 1
       ELSE IF toks[i - 1] = InlineClose THEN d - 1
       ELSE d

\* The texts with one of the tokens of B inside an open inline table.
InlineTextsWith(B) ==
  {InlineTextOf(toks) :
     toks \in {u \in InlineTokenSeqs :
                 \E i \in 1..Len(u) : u[i] \in B /\ InlineDepth(u, i) > 0}}

\* A line ending or '#' between the braces, at the level of the table.
BrokenInlineTexts == InlineTextsWith(InlineBreaks)

\* A line ending or '#' anywhere between the braces, outside a string.
LineEndingInlineTexts == InlineTextsWith(InlineBreaks \cup {InlineArrayPair})

\* The offset, from i on, of the first byte of t that is not a space or tab.
RECURSIVE SkipBlank(_, _)
SkipBlank(t, i) ==
  IF ByteAt(t, i) \in {SP, TAB} THEN SkipBlank(t, i + 1) ELSE i

\* What a step of the scan does at the delimiters of an inline table.
InlineDelimiterRule ==
  /\ pc = "scan_inline_table_loop" =>
       LET p == SkipBlank(text, index)
           b == ByteAt(text, p)
       IN IF b = Ord["}"] THEN pc' # "done" /\ index' = p + 1
          ELSE IF b = Ord[","]
            THEN pc' = "scan_key_like" /\ index' = SkipBlank(text, p + 1)
          ELSE result' = [kind |-> "MissingDelimiter", pos |-> p]
  /\ (pc = "scan_key_like" /\ current = Ord["}"]) =>
       result' = [kind |-> "Unexpected", pos |-> index]

C18_InlineTableIsOneLine ==
  [][/\ (pc' = "done" /\ text \in BrokenInlineTexts) => result'.kind # "Ok"
     /\ InlineDelimiterRule]_vars

\* A table that fails on a line ending after its first value, and one that
\* fails on the '}' after a trailing comma.
C18_Witness ==
  /\ pc = "done"
  /\ \/ /\ text \in BrokenInlineTexts
        /\ result.kind = "MissingDelimiter"
        /\ ByteAt(text, result.pos) \in {LF, CR}
        /\ Positions(symbols, "Bool") # {}
     \/ /\ text \in InlineTexts
        /\ result.kind = "Unexpected"
        /\ ByteAt(text, result.pos) = Ord["}"]
        /\ ByteAt(text, result.pos - 1) \in {SP, Ord[","]}
        /\ Positions(symbols, "Bool") # {}

\* C18 as stated: no line ending or '#' anywhere between the braces outside a
\* string body, a line ending inside an array value included.
C18_NoLineEndingBetweenBraces ==
  [][/\ (pc' = "done" /\ text \in LineEndingInlineTexts) => result'.kind # "Ok"
     /\ InlineDelimiterRule]_vars

(***************************************************************************)
(* Key paths: nothing, '[' or '[[' followed by key bytes, dots, spaces,    *)
(* closing brackets and '='.                                               *)
(***************************************************************************)
MaxPathLen == 4

PathAlphabet == {Ord["a"], Ord["."], SP, Ord["]"], Ord["="]}

PathTexts ==
  {h \o b : h \in {<<>>, A(<<"[">>), A(<<"[", "[">>)},
            b \in BSeq(PathAlphabet, MaxPathLen)}

InitPaths == InitOn(Base \cup PathTexts)

SpecPaths == InitPaths /\ [][Next]_vars

(***************************************************************************)
(* C19.  In an array-of-table header, the byte right after the ']' that    *)
(* ends the path must be ']': any other byte, a space and the end of the   *)
(* input included, fails with Expected{pos, c: ']'} at that byte, and no   *)
(* TableEnd is pushed.                                                     *)
(***************************************************************************)
\* The kind of the header symbol pushed last.
HeaderKind(syms) ==
  LET H == Positions(syms, "Table") \cup Positions(syms, "ArrayOfTable") IN
  IF H = {} THEN "None"
  ELSE syms[CHOOSE i \in H : \A j \in H : j <= i].sym

C19_SecondBracketExpected ==
  [][(pc = "scan_table_close" /\ HeaderKind(symbols) = "ArrayOfTable") =>
       /\ ByteAt(text, index - 1) = Ord["]"]
       /\ IF ByteAt(text, index) = Ord["]"]
            THEN pc' # "done" /\ index' = index + 1
            ELSE /\ result' = [kind |-> "Expected", pos |-> index,
                               c |-> Ord["]"]]
                 /\ symbols' = symbols]_vars

\* [[a] followed by a space, and [[a] at the end of the input.
C19_Witness ==
  /\ pc = "done"
  /\ result.kind = "Expected"
  /\ HeaderKind(symbols) = "ArrayOfTable"
  /\ Positions(symbols, "Key") # {}
  /\ ByteAt(text, result.pos) \in {SP, NUL}

(***************************************************************************)
(* C20.  In a dotted key path, segments and dots alternate, starting with  *)
(* a segment: a '.' where a segment is due (a leading dot, two dots in a   *)
(* row), the terminating ']' or '=' where a segment is due (an empty       *)
(* header, a dot right before the terminator) and a segment where a dot is *)
(* due each fail with Unexpected at the offending byte.                    *)
(***************************************************************************)
\* The offset, from i on, of the first byte of t that is not a bare-key byte.
RECURSIVE BareEnd(_, _)
BareEnd(t, i) == IF IsBareKeyByte(ByteAt(t, i)) THEN BareEnd(t, i + 1) ELSE i

\* The offset of the first byte of the path of bare keys that starts at
\* offset i of t and ends with the byte term, that breaks the alternation;
\* -1 when there is none before the path ends.  due tells that a segment is
\* due at i.
RECURSIVE PathOffence(_, _, _, _)
PathOffence(t, i, due, term) ==
  LET b == ByteAt(t, i) IN
  IF i >= Len(t) THEN -1
  ELSE IF b \in {SP, TAB} THEN PathOffence(t, i + 1, due, term)
  ELSE IF b = Ord["."] THEN
    IF due THEN i ELSE PathOffence(t, i + 1, TRUE, term)
  ELSE IF IsBareKeyByte(b) THEN
    IF due THEN PathOffence(t, BareEnd(t, i), FALSE, term) ELSE i
  ELSE IF b = term /\ due THEN i
  ELSE -1

\* The path that t starts with: a table header, or the key of an assignment.
FirstPathOffence(t) ==
  IF ByteAt(t, 0) = Ord["["] THEN
    PathOffence(t, IF ByteAt(t, 1) = Ord["["] THEN 2 ELSE 1, TRUE, Ord["]"])
  ELSE PathOffence(t, 0, TRUE, Ord["="])

C20_SegmentsAndDotsAlternate ==
  (pc = "done" /\ FirstPathOffence(text) >= 0) =>
    result = [kind |-> "Unexpected", pos |-> FirstPathOffence(text)]

\* A scan that ended on a dot after a dot, or on a second segment.
C20_Witness ==
  /\ pc = "done"
  /\ FirstPathOffence(text) > 1
  /\ result.kind = "Unexpected"
  /\ Positions(symbols, "Key") # {}
  /\ \/ ByteAt(text, result.pos) = Ord["."]
     \/ ByteAt(text, result.pos) = Ord["a"]

(***************************************************************************)
(* C21.  In a table header, a key segment that starts with three single or *)
(* three double quotes fails with MultilineString at the offset of the     *)
(* first of the three quotes, and no String symbol is pushed for it.       *)
(***************************************************************************)
\* Three equal quote bytes start at offset i of t.
TripleAt(t, i) ==
  /\ IsQuote(ByteAt(t, i))
  /\ ByteAt(t, i + 1) = ByteAt(t, i)
  /\ ByteAt(t, i + 2) = ByteAt(t, i)

C21_HeaderRefusesMultilineString ==
  [][/\ (pc = "scan_table_loop" /\ saw_dot /\ TripleAt(text, index)) =>
          pc' = "scan_single_line_string" /\ index' = index /\ symbols' = symbols
     /\ (pc = "scan_single_line_string" /\ TripleAt(text, index)) =>
          /\ result' = [kind |-> "MultilineString", pos |-> index]
          /\ symbols' = symbols]_vars

\* A header whose second segment is a multi-line string.
C21_Witness ==
  /\ pc = "done"
  /\ result.kind = "MultilineString"
  /\ TripleAt(text, result.pos)
  /\ HeaderKind(symbols) \in {"Table", "ArrayOfTable"}
  /\ Positions(symbols, "Key") # {}
  /\ Positions(symbols, "String") = {}

(***************************************************************************)
(* Comments, strings and quoted keys, one form at a time.                  *)
(***************************************************************************)
\* '#' followed by letters, tabs, control bytes and line endings.
MaxCommentBody == 3

CommentTexts ==
  {A(<<"#">>) \o b :
     b \in BSeq({Ord["x"], TAB, 1, 8, 11, 31, DEL, CR, LF, NUL}, MaxCommentBody)}

\* a=" followed by quotes, backslashes, the letter n and newlines.
MaxBasicBody == 4

BasicStringTexts ==
  {A(<<"a", "=", "DQ">>) \o b :
     b \in BSeq({DQ, BSLASH, Ord["n"], LF}, MaxBasicBody)}

\* a=' followed by quotes, the letter x, newlines and NUL bytes.
MaxLiteralBody == 3

LiteralStringTexts ==
  {A(<<"a", "=", "'">>) \o b :
     b \in BSeq({SQ, Ord["x"], LF, NUL}, MaxLiteralBody)}

\* A quoted key in each of the four string forms, with and without a newline
\* in it, at the top level, after a dot and in an inline table.
QuotedKeys ==
  {q \o b \o q :
     q \in {A(<<"'">>), A(<<"DQ">>), A(<<"'", "'", "'">>),
            A(<<"DQ", "DQ", "DQ">>)},
     b \in {A(<<"k">>), <<Ord["k"], LF>>}}

QuotedKeyTexts ==
  {c[1] \o k \o A(<<"=", "t", "r", "u", "e">>) \o c[2] :
     k \in QuotedKeys,
     c \in {<<<<>>, <<>>>>, <<A(<<"a", ".">>), <<>>>>,
            <<A(<<"a", "=", "{">>), A(<<"}">>)>>}}

InitTokens ==
  InitOn(Base \cup CommentTexts \cup BasicStringTexts \cup LiteralStringTexts
           \cup QuotedKeyTexts)

SpecTokens == InitTokens /\ [][Next]_vars

(***************************************************************************)
(* C22.  Inside a comment, a byte in 0x01-0x08 or 0x0B-0x1F (a \r only     *)
(* when no \n follows it) or 0x7F fails with ControlCharacter at its       *)
(* offset; a tab and every other byte is accepted; the comment ends at \n, *)
(* at \r\n (which it consumes) or at a NUL or the end of the input; and it *)
(* pushes no symbol.                                                       *)
(***************************************************************************)
C22_CommentBytes ==
  [][pc = "consume_comment_loop" =>
       LET b == ByteAt(text, index) IN
       /\ symbols' = symbols
       /\ IF index >= Len(text) \/ b = NUL \/ b = LF
            THEN pc' \notin {pc, "done"} /\ index' = index
          ELSE IF b = CR /\ ByteAt(text, index + 1) = LF
            THEN pc' \notin {pc, "done"} /\ index' = index + 2
          ELSE IF b \in 1..8 \/ b \in 11..31 \/ b = DEL
            THEN result' = [kind |-> "ControlCharacter", pos |-> index]
          ELSE pc' = pc /\ index' = index + 1]_vars

\* A comment that went over a tab and failed on a control byte after it, or
\* ended at \r\n.
C22_Witness ==
  /\ pc = "done"
  /\ text \in CommentTexts
  /\ Len(text) = 3
  /\ text[2] = TAB
  /\ \/ result = [kind |-> "ControlCharacter", pos |-> 2]
     \/ result.kind = "Ok" /\ text[3] = LF

(***************************************************************************)
(* C23.  A basic string ends at the first quote that has an even number of *)
(* backslashes right before it, and the cursor moves just past that quote; *)
(* a newline, a NUL or the end of the input met before such a quote fails  *)
(* with UnterminatedString, start being the offset after the opening quote *)
(* and pos the offset of that byte.                                        *)
(*                                                                         *)
(* The code does not do this on every input.  Its count of the backslashes *)
(* is an i32 (lex.rs 389, 398): on the 2^31-th backslash of a run the      *)
(* build with overflow checks panics, so the string ends neither at a      *)
(* quote nor with UnterminatedString (AddOverflowed, Outcomes); the build  *)
(* without them wraps, which keeps the parity.  That run starts at offset  *)
(* 3 or later and the cursor passes 2^31, more than an integer of TLC      *)
(* holds, so no behaviour that is checked here gets there.  And a string   *)
(* inside more than StackSafeDepth arrays may end in the overflow of the   *)
(* stack instead (C2): that is the behaviour SpecDeep reaches, and it      *)
(* violates the property.  On the strings of BasicStringTexts, which are   *)
(* neither that long nor nested, the property holds.                       *)
(***************************************************************************)
\* a= followed by one array more than the stack is taken to hold, and a basic
\* string in the innermost one: closed, with an escaped quote, unterminated.
DeepStringTexts ==
  {A(<<"a", "=">>) \o [i \in 1..(StackSafeDepth + 1) |-> Ord["["]] \o b
     \o [i \in 1..k |-> Ord["]"]] :
     b \in {A(<<"DQ", "x", "DQ">>), A(<<"DQ", "BSLASH", "DQ", "DQ">>),
            A(<<"DQ", "x">>)},
     k \in {0, StackSafeDepth + 1}}

InitDeep == InitOn(Base \cup DeepStringTexts)

SpecDeep == InitDeep /\ [][Next]_vars

\* The offset, from i on, of the byte of t that ends the body of a basic
\* string: an unescaped quote, a newline, a NUL or the end of t.
RECURSIVE BasicBodyEnd(_, _)
BasicBodyEnd(t, i) ==
  IF i >= Len(t) \/ ByteAt(t, i) \in {LF, NUL} \/ UnescapedQuote(t, i) THEN i
  ELSE BasicBodyEnd(t, i + 1)

RECURSIVE LiteralBodyEnd(_, _)
LiteralBodyEnd(t, i) ==
  IF i >= Len(t) \/ ByteAt(t, i) \in {LF, SQ, NUL} THEN i
  ELSE LiteralBodyEnd(t, i + 1)

C24_LiteralStringSpan ==
  [][pc = "scan_literal_string" =>
       LET j == LiteralBodyEnd(text, index + 1) IN
       IF ByteAt(text, j) = SQ
         THEN /\ pc' # "done"
              /\ index' = j + 1
              /\ symbols' = Append(symbols, [sym |-> "String",
                                             lo |-> index + 1, hi |-> j])
         ELSE /\ pc' = "done"
              /\ result'.kind = "UnterminatedString"
              /\ symbols' = symbols]_vars

\* The empty string '', and a string with a body.
C24_Witness ==
  /\ text \in LiteralStringTexts
  /\ Len(symbols) = 3
  /\ symbols[3].sym = "String"
  /\ symbols[3].lo = 3
  /\ symbols[3].hi \in {3, 5}
  /\ index = symbols[3].hi + 1

(***************************************************************************)
(* C25.  A quoted key in assignment position is accepted only in the       *)
(* single-line basic or literal form: in a successful scan no String       *)
(* symbol that stands before an Assign was scanned from a triple-quoted    *)
(* literal, and none has a newline byte in its span.                       *)
(***************************************************************************)
KeyStrings(syms) ==
  {i \in 1..(Len(syms) - 1) :
     syms[i].sym = "String" /\ syms[i + 1].sym = "Assign"}

C25_QuotedKeyIsSingleLine ==
  ScanOk =>
    \A i \in KeyStrings(symbols) :
      /\ OpeningLen(text, symbols[i].lo) = 1
      /\ \A p \in symbols[i].lo..(symbols[i].hi - 1) : ByteAt(text, p) # LF

\* A successful scan whose key was scanned from a triple-quoted literal.
C25_MultilineKeyAccepted ==
  /\ ScanOk
  /\ \E i \in KeyStrings(symbols) : OpeningLen(text, symbols[i].lo) = 3

(***************************************************************************)
(* C26.  Lex::scan returns UnconsumedInput{pos: p} exactly when its        *)
(* top-level loop stops on a NUL byte at an offset p below the length of   *)
(* the text; no Eof is pushed then, and a text without a NUL byte never    *)
(* gives UnconsumedInput.                                                  *)
(***************************************************************************)
\* The loop of scan has stopped with the cursor on a NUL byte of the text.
StoppedOnNul ==
  pc = "scan_end" /\ index < Len(text) /\ ByteAt(text, index) = NUL

C26_UnconsumedInputIsNul ==
  [][/\ StoppedOnNul =>
          /\ result' = [kind |-> "UnconsumedInput", pos |-> index]
          /\ symbols' = symbols
     /\ (result.kind = "None" /\ result'.kind = "UnconsumedInput") =>
          /\ StoppedOnNul
          /\ \E p \in 0..(Len(text) - 1) : ByteAt(text, p) = NUL
          /\ Positions(symbols', "Eof") = {}]_vars

\* UnconsumedInput returned after at least one symbol was pushed.
C26_Witness ==
  /\ result.kind = "UnconsumedInput"
  /\ result.pos > 0
  /\ result.pos < Len(text)
  /\ ByteAt(text, result.pos) = NUL
  /\ symbols # <<>>

(***************************************************************************)
(* C27.  A numeric literal ends, without consuming it, at the first byte   *)
(* that is a space, a tab, NUL or the end of the input, '#', ',' or a      *)
(* newline in either form (\n or \r\n); the Integer symbol pushed spans    *)
(* from the sign, or the first digit, to the last byte consumed before     *)
(* that byte.  Any other byte inside the literal fails with Unexpected at  *)
(* its offset.                                                             *)
(***************************************************************************)
\* A byte that ends a numeric literal stands at offset p of t.
NumberEndAt(t, p) ==
  \/ ByteAt(t, p) \in {SP, TAB, NUL, HASH, Ord[","], LF}
  \/ ByteAt(t, p) = CR /\ ByteAt(t, p + 1) = LF

C27_NumberTerminators ==
  [][(pc \in NumberLoops) =>
       /\ NumberEndAt(text, index) =>
            /\ pc' # "done"
            /\ index' = index
            /\ symbols' = Append(symbols, [sym |-> "Integer", lo |-> start,
                                           hi |-> index])
       /\ (/\ ~NumberEndAt(text, index)
           /\ ~IsDigitOf(pc, ByteAt(text, index))
           /\ ByteAt(text, index) # Ord["_"]) =>
            /\ result' = [kind |-> "Unexpected", pos |-> index]
            /\ symbols' = symbols]_vars

\* A numeric literal followed by \r\n is refused at the \r.
C27_CrLfRefused ==
  /\ pc = "done"
  /\ result.kind = "Unexpected"
  /\ result.pos > 0
  /\ ByteAt(text, result.pos - 1) \in Ord["0"]..Ord["9"]
  /\ ByteAt(text, result.pos) = CR
  /\ ByteAt(text, result.pos + 1) = LF
  /\ Positions(symbols, "Integer") = {}

(***************************************************************************)
(* C28.  A comment contributes no symbol: when a text scans successfully,  *)
(* the text with a comment appended to its last line scans successfully    *)
(* with the same kinds of symbols and the same span for every symbol but   *)
(* Eof, whose position becomes the new length.                             *)
(***************************************************************************)
\* '#' followed by bytes that are legal in a comment.
CommentTails == {A(<<"#">>), A(<<"#", "c">>), <<HASH, SP, Ord["c"], TAB>>}

\* The scan r of the text t is successful, and its symbols are syms but for
\* the positions of the punctuation and of Eof, which stands at the end of t.
SameButEof(t, syms, r) ==
  /\ r.result.kind = "Ok"
  /\ Kinds(r.symbols) = Kinds(syms)
  /\ \A i \in 1..Len(syms) :
       syms[i].sym \in PayloadKinds => r.symbols[i] = syms[i]
  /\ r.symbols[Len(syms)] = [sym |-> "Eof", lo |-> Len(t), hi |-> Len(t) + 1]

C28_CommentAddsNoSymbol ==
  ScanOk =>
    \A c \in CommentTails :
      \A r \in LexScan(text \o c) : SameButEof(text \o c, symbols, r)

\* A text that scans successfully and does not with a comment appended.
C28_CommentBreaksScan ==
  /\ ScanOk
  /\ \E c \in CommentTails :
       \E r \in LexScan(text \o c) : r.result.kind = "Unexpected"

(***************************************************************************)
(* C29.  In a multi-line literal string, after the first ''' of the body   *)
(* the scanner consumes at most two further quotes: with none, one or two  *)
(* the string closes with the cursor just past the last of them; a third   *)
(* further quote fails with TooManyQuotesInString, start being the offset  *)
(* of the first body byte and pos the offset of that quote.                *)
(***************************************************************************)
\* The offset, from i on, of the first ''' of t; Len(t) when there is none.
RECURSIVE FirstTriple(_, _)
FirstTriple(t, i) ==
  IF i + 3 > Len(t) THEN Len(t)
  ELSE IF \A k \in 0..2 : ByteAt(t, i + k) = SQ THEN i
  ELSE FirstTriple(t, i + 1)

\* The number of single quotes of t in a row from offset i on.
RECURSIVE QuotesFrom(_, _)
QuotesFrom(t, i) ==
  IF i < Len(t) /\ ByteAt(t, i) = SQ THEN 1 + QuotesFrom(t, i + 1) ELSE 0

C29_TrailingQuotes ==
  [][(/\ pc = "scan_multiline_literal_string"
      /\ ~NoTripleQuote(text, index + 3))
     => LET i == FirstTriple(text, index + 3)
            further == QuotesFrom(text, i + 3)
        IN
        IF further <= 2
          THEN /\ pc' # "done"
               /\ index' = i + 3 + further
               /\ Len(symbols') = Len(symbols) + 1
          ELSE /\ result' = [kind |-> "TooManyQuotesInString",
                             start |-> index + 3, pos |-> i + 5]
               /\ symbols' = symbols]_vars

\* A body whose first ''' is followed by three quotes, refused at the third.
C29_Witness ==
  /\ text \in MlLiteralTexts
  /\ FirstTriple(text, 5) > 5
  /\ QuotesFrom(text, FirstTriple(text, 5) + 3) >= 3
  /\ result = [kind |-> "TooManyQuotesInString", start |-> 5,
               pos |-> FirstTriple(text, 5) + 5]
  /\ Positions(symbols, "String") = {}

(***************************************************************************)
(* Lines with something after a top-level value or a table header: a head, *)
(* spaces and tabs, and a tail.                                            *)
(***************************************************************************)
MaxRestPad == 2

LineHeads ==
  {A(<<"a", "=", "t", "r", "u", "e">>), A(<<"a", "=", "'", "b", "'">>),
   A(<<"a", "=", "DQ", "b", "DQ">>), A(<<"a", "=", "+", "1">>),
   A(<<"a", "=", "[", "t", "r", "u", "e", "]">>),
   A(<<"a", "=", "{", "b", "=", "t", "r", "u", "e", "}">>),
   A(<<"[", "a", "]">>), A(<<"[", "a", ".", "b", "]">>),
   A(<<"[", "[", "a", "]", "]">>)}

\* What may not follow on the same line: an assignment, a header, a stray byte.
SecondStatements ==
  {A(<<"b", "=", "t", "r", "u", "e">>), A(<<"[", "b", "]">>), A(<<"x">>),
   A(<<"=">>), A(<<"]">>), A(<<"'", "b", "'">>)}

\* What may follow: nothing, a comment, a line ending and the next line.
LineEnds ==
  {<<>>, A(<<"#", "c">>), <<LF>> \o A(<<"b", "=", "t", "r", "u", "e">>),
   <<CR, LF>> \o A(<<"[", "b", "]">>),
   A(<<"#", "c">>) \o <<LF>> \o A(<<"b", "=", "t", "r", "u", "e">>)}

RestTexts ==
  {h \o w \o r : h \in LineHeads, w \in BSeq({SP, TAB}, MaxRestPad),
                 r \in SecondStatements \cup LineEnds}

InitRest == InitOn(Base \cup RestTexts)

SpecRest == InitRest /\ [][Next]_vars

(***************************************************************************)
(* C30.  After the value of a top-level assignment and after the closing   *)
(* bracket or brackets of a table header, the rest of the line holds only  *)
(* spaces, tabs and one comment: any other byte before the line end fails  *)
(* with Unexpected at that byte, so that two assignments, or a header and  *)
(* an assignment, on one line never scan successfully.                     *)
(***************************************************************************)
C30_RestOfLine ==
  [][/\ pc = "consume_line" =>
          LET c == ByteAt(text, index) IN
          /\ symbols' = symbols
          /\ c \in {SP, TAB} => pc' = pc /\ index' = index + 1
          /\ c = HASH => pc' = "consume_comment" /\ index' = index
          /\ c \in {NUL, LF} => pc' \notin {pc, "done"} /\ index' = index
          /\ c \notin {SP, TAB, HASH, NUL, LF, CR} =>
               result' = [kind |-> "Unexpected", pos |-> index]
     /\ (pc' = "done" /\ pc # "done") =>
          \A h \in LineHeads, w \in BSeq({SP, TAB}, MaxRestPad),
             r \in SecondStatements :
            text = h \o w \o r =>
              result' = [kind |-> "Unexpected", pos |-> Len(h) + Len(w)]]_vars

\* A header followed on its line by an assignment, refused at the assignment.
C30_Witness ==
  /\ text \in {A(<<"[", "a", "]">>) \o w \o A(<<"b", "=", "t", "r", "u", "e">>) :
                 w \in BSeq({SP, TAB}, MaxRestPad) \ {<<>>}}
  /\ Positions(symbols, "Table") # {}
  /\ Positions(symbols, "TableEnd") = {}
  /\ result.kind = "Unexpected"
  /\ ByteAt(text, result.pos) = Ord["b"]

(***************************************************************************)
(* C31.  Every Integer symbol spans at least one digit of its base: a lone *)
(* sign, or a lone base prefix 0x, 0o or 0b with or without a sign, is     *)
(* never emitted as an Integer.                                            *)
(***************************************************************************)
\* The loop that scans the digits of the literal of t whose first byte after
\* the sign is at offset p.
BaseLoopAt(t, p) ==
  IF ByteAt(t, p) # Ord["0"] THEN "scan_number_decimal"
  ELSE IF ByteAt(t, p + 1) \in {Ord["x"], Ord["X"]} THEN "scan_number_hex"
  ELSE IF ByteAt(t, p + 1) \in {Ord["o"], Ord["O"]} THEN "scan_number_octal"
  ELSE IF ByteAt(t, p + 1) \in {Ord["b"], Ord["B"]} THEN "scan_number_binary"
  ELSE "scan_number_decimal"

\* The span [lo, hi) of t holds a digit of its base after the sign and prefix.
SpansDigit(t, lo, hi) ==
  LET p == IF ByteAt(t, lo) \in {Ord["+"], Ord["-"]} THEN lo + 1 ELSE lo
      loop == BaseLoopAt(t, p)
      from == IF loop = "scan_number_decimal" THEN p ELSE p + 2
  IN \E q \in from..(hi - 1) : IsDigitOf(loop, ByteAt(t, q))

C31_IntegerHasDigit ==
  \A i \in Positions(symbols, "Integer") :
    SpansDigit(text, symbols[i].lo, symbols[i].hi)

\* An Integer symbol whose span is a sign or a sign and a base prefix.
C31_IntegerWithoutDigit ==
  \E i \in Positions(symbols, "Integer") :
    /\ Slice(text, symbols[i].lo, symbols[i].hi) \in
         {A(<<"+">>), A(<<"+", "0", "x">>), A(<<"+", "0", "o">>),
          A(<<"+", "0", "b">>)}
    /\ ScanOk

(***************************************************************************)
(* C32.  In the symbols of a successful scan, Array/ArrayEnd and           *)
(* InlineTable/InlineTableEnd are balanced and properly nested; every      *)
(* Table or ArrayOfTable is followed by one or more Key or String symbols  *)
(* and then exactly one TableEnd; every Assign stands right after a Key or *)
(* String and right before the first symbol of a value.                    *)
(***************************************************************************)
\* syms closes every bracket of open, innermost first, and every bracket it
\* opens itself.
RECURSIVE Nests(_, _)
Nests(syms, open) ==
  IF syms = <<>> THEN open = <<>>
  ELSE LET k == Head(syms).sym IN
       IF k \in {"Array", "InlineTable"} THEN Nests(Tail(syms), <<k>> \o open)
       ELSE IF k = "ArrayEnd"
         THEN open # <<>> /\ Head(open) = "Array" /\ Nests(Tail(syms), Tail(open))
       ELSE IF k = "InlineTableEnd"
         THEN /\ open # <<>>
              /\ Head(open) = "InlineTable"
              /\ Nests(Tail(syms), Tail(open))
       ELSE Nests(Tail(syms), open)

ValueStarts == {"String", "Integer", "Float", "Bool", "Array", "InlineTable"}

\* The header that starts at symbol i of syms: keys, then one TableEnd.
HeaderAt(syms, i) ==
  \E j \in (i + 2)..(Len(syms) - 1) :
    /\ \A k \in (i + 1)..(j - 1) : syms[k].sym \in {"Key", "String"}
    /\ syms[j].sym = "TableEnd"
    /\ syms[j + 1].sym # "TableEnd"

\* Every TableEnd of syms ends a header.
TableEndsMatch(syms) ==
  Cardinality(Positions(syms, "TableEnd")) =
    Cardinality(Positions(syms, "Table") \cup Positions(syms, "ArrayOfTable"))

C32_StreamIsWellFormed ==
  ScanOk =>
    /\ Nests(symbols, <<>>)
    /\ \A i \in Positions(symbols, "Table") \cup Positions(symbols, "ArrayOfTable") :
         HeaderAt(symbols, i)
    /\ TableEndsMatch(symbols)
    /\ \A i \in Positions(symbols, "Assign") :
         /\ i > 1
         /\ symbols[i - 1].sym \in {"Key", "String"}
         /\ symbols[i + 1].sym \in ValueStarts

\* A successful scan with an array inside an inline table, or the reverse.
C32_Witness ==
  /\ ScanOk
  /\ \E i \in Positions(symbols, "InlineTable"), j \in Positions(symbols, "Array"),
        k \in Positions(symbols, "ArrayEnd"), m \in Positions(symbols, "InlineTableEnd") :
       i < j /\ j < k /\ k < m
  /\ Positions(symbols, "Assign") # {}

(***************************************************************************)
(* C33.  InlineTableEnd is pushed at the offset of the closing '}', for an *)
(* empty inline table and for one with pairs, as ArrayEnd is pushed at the *)
(* offset of the closing ']' for an empty array and for one with values.   *)
(***************************************************************************)
C33_EndSymbolsAtClosingByte ==
  /\ \A i \in Positions(symbols, "InlineTableEnd") :
       ByteAt(text, symbols[i].lo) = Ord["}"]
  /\ \A i \in Positions(symbols, "ArrayEnd") :
       ByteAt(text, symbols[i].lo) = Ord["]"]

\* The InlineTableEnd of an empty inline table, one past its '}'.
C33_EmptyInlineTableEndPastBrace ==
  \E i \in Positions(symbols, "InlineTableEnd") :
    /\ symbols[i - 1].sym = "InlineTable"
    /\ ByteAt(text, symbols[i].lo - 1) = Ord["}"]
    /\ ByteAt(text, symbols[i].lo) # Ord["}"]

(***************************************************************************)
(* C34.  In every state of a scan the cursor index is at most the length   *)
(* of the text and the cached current byte is text[index], or 0 when index *)
(* is the length; from one step to the next the index never decreases.     *)
(***************************************************************************)
CursorInText == index <= Len(text) /\ current = ByteAt(text, index)

C34_CursorConsistent == [](CursorInText) /\ [][index' >= index]_vars

\* The cursor at the end of a text that was consumed byte by byte.
C34_Witness ==
  /\ ScanOk
  /\ Len(text) > 0
  /\ index = Len(text)
  /\ current = 0
  /\ Len(symbols) > 1

\* The cursor beyond the end of the text.
C34_CursorPastEnd == index > Len(text)

(***************************************************************************)
(* C35.  The symbols are in document order and append-only: every step     *)
(* leaves the symbols pushed earlier as they were, and the lo offsets of   *)
(* the symbols never decrease from the first to the last, on success and   *)
(* on the symbols left by an error.                                        *)
(***************************************************************************)
IsPrefix(a, b) == Len(a) <= Len(b) /\ SubSeq(b, 1, Len(a)) = a

DocumentOrder(syms) ==
  \A i \in 1..(Len(syms) - 1) : syms[i].lo <= syms[i + 1].lo

C35_AppendOnlyInOrder ==
  [](DocumentOrder(symbols)) /\ [][IsPrefix(symbols, symbols')]_vars

\* The symbols left by an error after an assignment on the same line.
C35_Witness ==
  /\ text \in RestTexts
  /\ pc = "done"
  /\ result.kind = "Unexpected"
  /\ Kinds(symbols) = <<"Key", "Assign", "Bool">>
  /\ symbols[3].lo = 2
  /\ result.pos > symbols[3].hi

(***************************************************************************)
(* C36.  For both single-line string forms, the pos of UnterminatedString  *)
(* is the offset of the byte that ended the scan (the \n or NUL, or the    *)
(* length of the text when the input ends inside the string), with         *)
(* start <= pos <= length; a basic and a literal string report the same    *)
(* pos for the same unterminated body.                                     *)
(***************************************************************************)
\* t with the byte at offset i replaced by c.
WithByte(t, i, c) == [t EXCEPT ![i + 1] = c]

\* The error r is the one of a single-line string of t that opens right
\* before r.start and is not closed.
SingleLineUnterminated(t, r) ==
  /\ r.kind = "UnterminatedString"
  /\ r.start > 0
  /\ IsQuote(ByteAt(t, r.start - 1))
  /\ OpeningLen(t, r.start) = 1

C36_UnterminatedPos ==
  (pc = "done" /\ SingleLineUnterminated(text, result)) =>
    LET q == ByteAt(text, result.start - 1)
        j == IF q = DQ THEN BasicBodyEnd(text, result.start)
             ELSE LiteralBodyEnd(text, result.start)
        others == LexScan(WithByte(text, result.start - 1,
                                   IF q = DQ THEN SQ ELSE DQ))
    IN
    /\ result.pos = j
    /\ result.start <= result.pos
    /\ result.pos <= Len(text)
    /\ (\A p \in result.start..(j - 1) : ~IsQuote(ByteAt(text, p))
                                         /\ ByteAt(text, p) # BSLASH) =>
         \A other \in others :
           /\ other.result.kind = "UnterminatedString"
           /\ other.result.pos = result.pos

\* A literal string ended by \n or NUL with pos one past that byte, or ended
\* by the end of the input with pos at its first body byte.
C36_LiteralPosOff ==
  /\ pc = "done"
  /\ SingleLineUnterminated(text, result)
  /\ ByteAt(text, result.start - 1) = SQ
  /\ LiteralBodyEnd(text, result.start) > result.start
  /\ result.pos \in {LiteralBodyEnd(text, result.start) + 1, result.start}

====
